---- MODULE Spec2Model ----
(***************************************************************************)
(* TesterRunner (src/src/freeDView_tester_runner.cpp): the coordinator     *)
(* that launches the external tester on two QProcess channels, attributes  *)
(* its progress lines to test keys and reports run outcomes as signals.    *)
(*                                                                         *)
(* Every handler is a function from a state record (the object's fields    *)
(* plus the signals emitted so far in the current call) to a state record, *)
(* so that a handler that runs inside another one (the finished() slot     *)
(* inside waitForFinished(), startProcess() inside the slot) is composed   *)
(* the way the call stack composes it.  An action is one top-level call    *)
(* from the event loop.                                                    *)
(***************************************************************************)
EXTENDS Integers, Sequences, FiniteSets, TLC

VARIABLES
    m_mode,            \* Mode: "None" | "All" | "CompareThenPrepare"
    m_step2Queued,     \* bool
    m_testerPath,      \* QString
    m_iniPath,         \* QString
    m_currentTestKey,  \* QString, "" = unset
    m_activeTests,     \* QMap<QString,int>: test key -> total frame count
    m_testKeyQueue,    \* QQueue<QString>: order of test starts
    m_process,         \* primary QProcess: [state, args]
    m_prepareUIProcess,\* independent QProcess: [state]
    emitted,           \* the signals emitted by the last call, in order
    lastOp,            \* the last call from the event loop and its inputs
    startOrder,        \* history: the active keys in the order they became active
    child,             \* the primary child's output: [stream, pos, seen]
    m_maxCacheSize,    \* ImageLoaderManager: int
    m_pathA,           \* ImageLoaderManager: QString, "" = not set
    m_cache,           \* ImageLoaderManager: QHash<QString,QPixmap>, its keys
    m_cacheAccessOrder,\* ImageLoaderManager: QList<QString>, oldest first
    m_cacheMutex,      \* ImageLoaderManager: QMutex, its holder, "" = free
    calls              \* per thread, the ImageLoaderManager call it is in

cacheVars == <<m_maxCacheSize, m_pathA, m_cache, m_cacheAccessOrder,
               m_cacheMutex, calls>>

runnerVars == <<m_mode, m_step2Queued, m_testerPath, m_iniPath,
                m_currentTestKey, m_activeTests, m_testKeyQueue, m_process,
                m_prepareUIProcess, startOrder, child>>

vars == <<m_mode, m_step2Queued, m_testerPath, m_iniPath, m_currentTestKey,
          m_activeTests, m_testKeyQueue, m_process, m_prepareUIProcess,
          emitted, lastOp, startOrder, child, m_maxCacheSize, m_pathA,
          m_cache, m_cacheAccessOrder, m_cacheMutex, calls>>

(***************************** bounds and inputs ***************************)

\* The start-order queue grows with every start line; a start line is
\* accepted by the model only while the queue is shorter than this.
MaxQueue == 2

TestKeys == {"K1", "K2"}
\* QMap iterates its keys in sorted order.
KeyOrder == <<"K1", "K2">>

Paths == {"", "tester"}
Inis == {"", "ini"}
ExitCodes == {0, 1}
ExitStatuses == {"NormalExit", "CrashExit"}
Exits == [code : ExitCodes, status : ExitStatuses]

\* What a call of startProcess finds: does QFileInfo(program) exist, does
\* QStandardPaths::findExecutable find it, and how waitForStarted(5000) ends
\* ("started": Running; "failed": FailedToStart, NotRunning, no finished();
\* "timeout": still Starting).
StartOutcomes == {"started", "failed", "timeout"}
StartEnvs ==
    {e \in [exists : BOOLEAN, executable : BOOLEAN, onPath : BOOLEAN,
            start : StartOutcomes] : e.executable => e.exists}

\* How kill() followed by waitForFinished(2000) ends: "finished" (the
\* process died and finished() was emitted inside the wait), "failed" (a
\* Starting process reported FailedToStart: no finished()), "timeout".
KillOutcomes == {"finished", "failed", "timeout"}

(********************************* signals *********************************)

RunStarted(mode) == [sig |-> "runStarted", mode |-> mode]

\* stdOut is not modelled; with MergedChannels stdErr of an exit is empty.
RunFinished(success, mode, exitCode, stdErr) ==
    [sig |-> "runFinished", success |-> success, mode |-> mode,
     exitCode |-> exitCode, stdErr |-> stdErr]

ProgressUpdated(percentage, message) ==
    [sig |-> "progressUpdated", percentage |-> percentage, message |-> message]

TestProgressUpdated(testKey, percentage, message) ==
    [sig |-> "testProgressUpdated", testKey |-> testKey,
     percentage |-> percentage, message |-> message]

OutputLine(line, isError) ==
    [sig |-> "outputLine", line |-> line, isError |-> isError]

Emit(s, ev) == [s EXCEPT !.out = Append(@, ev)]

(****************************** the state record ***************************)

State ==
    [mode |-> m_mode, step2 |-> m_step2Queued, testerPath |-> m_testerPath,
     iniPath |-> m_iniPath, cur |-> m_currentTestKey, act |-> m_activeTests,
     queue |-> m_testKeyQueue, proc |-> m_process, prep |-> m_prepareUIProcess,
     out |-> <<>>, order |-> startOrder]

\* The history of registrations: the keys still active keep their order, a
\* key that became active goes to the back.  A key that is announced again
\* while active keeps its place.
Registered(order, active) ==
    LET kept == SelectSeq(order, LAMBDA k : k \in active)
    IN  kept \o SelectSeq(KeyOrder, LAMBDA k :
                    k \in active /\ \A i \in 1..Len(kept) : kept[i] # k)

CommitFields(s, op) ==
    /\ m_mode' = s.mode
    /\ m_step2Queued' = s.step2
    /\ m_testerPath' = s.testerPath
    /\ m_iniPath' = s.iniPath
    /\ m_currentTestKey' = s.cur
    /\ m_activeTests' = s.act
    /\ m_testKeyQueue' = s.queue
    /\ m_process' = s.proc
    /\ m_prepareUIProcess' = s.prep
    /\ emitted' = s.out
    /\ lastOp' = op
    /\ startOrder' = Registered(s.order, DOMAIN s.act)

Commit(s, op) == CommitFields(s, op) /\ UNCHANGED <<child, cacheVars>>

EmptyMap == [k \in {} |-> 0]

Alive(p) == p.state \in {"Running", "Starting"}

ModeStr(mode) ==
    IF mode = "All" THEN "all"
    ELSE IF mode = "CompareThenPrepare" THEN "compare+prepare" ELSE "unknown"

ClearTracking(s) == [s EXCEPT !.act = EmptyMap, !.queue = <<>>, !.cur = ""]

(************************* the primary process channel *********************)

\* startProcess without the return of line 549: the launch goes on after
\* "Program not found" was reported.
startProcess_NoReturn(s, subcommand, env) ==
    LET s1 == IF s.proc.state = "NotRunning"
              THEN [s EXCEPT !.proc.args = subcommand] ELSE s
        s2 == IF ~env.exists /\ ~env.executable /\ ~env.onPath
              THEN Emit(s1, RunFinished(FALSE, "unknown", -1, "Program not found"))
              ELSE s1
    IN  IF s2.proc.state = "Running" THEN s2
        ELSE [s2 EXCEPT !.proc.state = "Running"]

\* startProcess(program, args, workingDir), lines 332-565.  setProgram and
\* setArguments are refused by QProcess unless the process is NotRunning, and
\* so is start(); waitForStarted returns true at once for a Running process.
startProcess(s, subcommand, env) ==
    LET s1 == IF s.proc.state = "NotRunning"
              THEN [s EXCEPT !.proc.args = subcommand] ELSE s
        failure == RunFinished(FALSE, "unknown", -1, "Failed to start process")
    IN  IF ~env.exists /\ ~env.executable /\ ~env.onPath
        THEN Emit(s1, RunFinished(FALSE, "unknown", -1, "Program not found"))
        ELSE IF s1.proc.state = "Running" THEN s1
        ELSE IF env.start = "started"
             THEN [s1 EXCEPT !.proc.state = "Running"]
        ELSE IF env.start = "failed"
             THEN Emit([s1 EXCEPT !.proc.state = "NotRunning"], failure)
        ELSE Emit([s1 EXCEPT !.proc.state = "Starting"], failure)

\* runNextStep(), lines 304-330.
runNextStep(s, env) ==
    IF s.mode # "CompareThenPrepare" THEN s
    ELSE startProcess(s, "prepare-ui", env)

\* onProcessFinished without the chaining of lines 42-47.
onProcessFinished_NoChain(s, exit, env) ==
    LET s1 == Emit(ClearTracking(s), ProgressUpdated(100, "Processing completed"))
        success == (exit.status = "NormalExit" /\ exit.code = 0)
    IN  [Emit(s1, RunFinished(success, ModeStr(s1.mode), exit.code, ""))
           EXCEPT !.mode = "None", !.step2 = FALSE]

\* onProcessFinished with success read from the exit code alone.
onProcessFinished_CodeOnly(s, exit, env) ==
    LET s1 == Emit(ClearTracking(s), ProgressUpdated(100, "Processing completed"))
        success == (exit.code = 0)
    IN  IF s1.mode = "CompareThenPrepare" /\ ~s1.step2
        THEN runNextStep([s1 EXCEPT !.step2 = TRUE], env)
        ELSE [Emit(s1, RunFinished(success, ModeStr(s1.mode), exit.code, ""))
                EXCEPT !.mode = "None", !.step2 = FALSE]

\* onProcessFinished without the reset of lines 35-37.
onProcessFinished_KeepsTracking(s, exit, env) ==
    LET s1 == Emit(s, ProgressUpdated(100, "Processing completed"))
        success == (exit.status = "NormalExit" /\ exit.code = 0)
    IN  IF s1.mode = "CompareThenPrepare" /\ ~s1.step2
        THEN runNextStep([s1 EXCEPT !.step2 = TRUE], env)
        ELSE [Emit(s1, RunFinished(success, ModeStr(s1.mode), exit.code, ""))
                EXCEPT !.mode = "None", !.step2 = FALSE]

\* onProcessFinished chaining into phase two only after a clean exit.
onProcessFinished_ChainOnSuccess(s, exit, env) ==
    LET s1 == Emit(ClearTracking(s), ProgressUpdated(100, "Processing completed"))
        success == (exit.status = "NormalExit" /\ exit.code = 0)
    IN  IF s1.mode = "CompareThenPrepare" /\ ~s1.step2 /\ success
        THEN runNextStep([s1 EXCEPT !.step2 = TRUE], env)
        ELSE [Emit(s1, RunFinished(success, ModeStr(s1.mode), exit.code, ""))
                EXCEPT !.mode = "None", !.step2 = FALSE]

\* onProcessFinished(exitCode, exitStatus), lines 20-55.  QProcess emits
\* finished() after it has set its state to NotRunning, so the wait of lines
\* 27-30 is not entered; the caller passes s with the process NotRunning.
onProcessFinished(s, exit, env) ==
    LET s1 == Emit(ClearTracking(s), ProgressUpdated(100, "Processing completed"))
        success == (exit.status = "NormalExit" /\ exit.code = 0)
    IN  IF s1.mode = "CompareThenPrepare" /\ ~s1.step2
        THEN runNextStep([s1 EXCEPT !.step2 = TRUE], env)
        ELSE [Emit(s1, RunFinished(success, ModeStr(s1.mode), exit.code, ""))
                EXCEPT !.mode = "None", !.step2 = FALSE]

\* runAll storing the paths and the mode before it validates them.
runAll_StoreFirst(s, testerPath, iniPath, env) ==
    LET s0 == [s EXCEPT !.testerPath = testerPath, !.iniPath = iniPath,
                        !.mode = "All", !.step2 = FALSE]
    IN  IF testerPath = ""
        THEN Emit(s0, RunFinished(FALSE, "all", -1, "Invalid tester path"))
        ELSE IF iniPath = ""
        THEN Emit(s0, RunFinished(FALSE, "all", -1, "Invalid INI path"))
        ELSE startProcess(Emit(ClearTracking(s0), RunStarted("all")), "all", env)

\* runAll(testerPath, iniPath), lines 110-157.
runAll(s, testerPath, iniPath, env) ==
    IF testerPath = ""
    THEN Emit(s, RunFinished(FALSE, "all", -1, "Invalid tester path"))
    ELSE IF iniPath = ""
    THEN Emit(s, RunFinished(FALSE, "all", -1, "Invalid INI path"))
    ELSE LET s1 == ClearTracking([s EXCEPT !.testerPath = testerPath,
                                           !.iniPath = iniPath,
                                           !.mode = "All", !.step2 = FALSE])
         IN  startProcess(Emit(s1, RunStarted("all")), "all", env)

\* runCompareAndPrepare(testerPath, iniPath), lines 159-204.
runCompareAndPrepare(s, testerPath, iniPath, env) ==
    IF testerPath = ""
    THEN Emit(s, RunFinished(FALSE, "compare+prepare", -1, "Invalid tester path"))
    ELSE IF iniPath = ""
    THEN Emit(s, RunFinished(FALSE, "compare+prepare", -1, "Invalid INI path"))
    ELSE LET s1 == ClearTracking([s EXCEPT !.testerPath = testerPath,
                                           !.iniPath = iniPath,
                                           !.mode = "CompareThenPrepare",
                                           !.step2 = FALSE])
         IN  startProcess(Emit(s1, RunStarted("compare+prepare")), "compare", env)

(*********************** the independent process channel *******************)

\* runPrepareUI(testerPath, iniPath), lines 206-302.  start() is not waited
\* for: the process is Starting when the call returns.
\* runPrepareUI without the check of lines 222-225.
runPrepareUI_NoDuplicateCheck(s, testerPath, iniPath) ==
    IF testerPath = ""
    THEN Emit(s, RunFinished(FALSE, "prepare-ui", -1, "Invalid tester path"))
    ELSE IF iniPath = ""
    THEN Emit(s, RunFinished(FALSE, "prepare-ui", -1, "Invalid INI path"))
    ELSE [Emit(s, RunStarted("prepare-ui")) EXCEPT !.prep.state = "Starting"]

runPrepareUI(s, testerPath, iniPath) ==
    IF testerPath = ""
    THEN Emit(s, RunFinished(FALSE, "prepare-ui", -1, "Invalid tester path"))
    ELSE IF iniPath = ""
    THEN Emit(s, RunFinished(FALSE, "prepare-ui", -1, "Invalid INI path"))
    ELSE IF Alive(s.prep) THEN s
    ELSE [Emit(s, RunStarted("prepare-ui")) EXCEPT !.prep.state = "Starting"]

\* onPrepareUIProcessFinished(exitCode, exitStatus), lines 674-694.
\* onPrepareUIProcessFinished ending as onProcessFinished ends (lines 35-37,
\* 53-54).
onPrepareUIProcessFinished_AsPrimary(s, exit) ==
    LET success == (exit.status = "NormalExit" /\ exit.code = 0)
    IN  [Emit(ClearTracking(s), RunFinished(success, "prepare-ui", exit.code, ""))
            EXCEPT !.mode = "None", !.step2 = FALSE]

onPrepareUIProcessFinished(s, exit) ==
    LET success == (exit.status = "NormalExit" /\ exit.code = 0)
    IN  Emit(s, RunFinished(success, "prepare-ui", exit.code, ""))

(*********************************** stop **********************************)

\* The keys of m_activeTests in QMap (sorted) order.
ActiveKeys(s) == SelectSeq(KeyOrder, LAMBDA k : k \in DOMAIN s.act)

RECURSIVE EmitCancelled(_, _)
EmitCancelled(s, keys) ==
    IF keys = <<>> THEN s
    ELSE EmitCancelled(Emit(s, TestProgressUpdated(Head(keys), -1, "Cancelled")),
                       Tail(keys))

\* kill(); waitForFinished(2000); kill() again on false, for the primary
\* process (lines 65-70).  finished() is emitted inside waitForFinished, and
\* the slot onProcessFinished (a direct connection) runs there.
killPrimary(s, outcome, exit, env) ==
    IF outcome = "finished"
    THEN onProcessFinished([s EXCEPT !.proc.state = "NotRunning"], exit, env)
    ELSE IF outcome = "failed"
    THEN [s EXCEPT !.proc.state = "NotRunning"]
    ELSE s

\* The same for the independent process (lines 95-99).
killPrepareUI(s, outcome, exit) ==
    IF outcome = "finished"
    THEN onPrepareUIProcessFinished([s EXCEPT !.prep.state = "NotRunning"], exit)
    ELSE IF outcome = "failed"
    THEN [s EXCEPT !.prep.state = "NotRunning"]
    ELSE s

\* Lines 62-90 of stop(): the primary process.
stopPrimary(s, outcome, exit, env) ==
    IF ~Alive(s.proc) THEN s
    ELSE LET s1 == killPrimary(s, outcome, exit, env)
             s2 == ClearTracking(EmitCancelled(s1, ActiveKeys(s1)))
             s3 == Emit(s2, RunFinished(FALSE, ModeStr(s2.mode), -1,
                                        "Operation cancelled by user"))
         IN  [s3 EXCEPT !.mode = "None", !.step2 = FALSE]

\* Lines 93-102 of stop(): the independent process.
stopPrepareUI(s, outcome, exit) ==
    IF ~Alive(s.prep) THEN s
    ELSE Emit(killPrepareUI(s, outcome, exit),
              RunFinished(FALSE, "prepare-ui", -1, "Phase 4 cancelled by user"))

\* stop(), lines 59-108.
stop(s, kill1, exit1, env, kill2, exit2) ==
    stopPrepareUI(stopPrimary(s, kill1, exit1, env), kill2, exit2)

(******************** the readyReadStandardOutput handler ******************)

\* Frame totals a progress line may carry: 1..MaxTotal.
MaxTotal == 2

\* The tester's output is a sequence of tokens: the keywords the regular
\* expressions of lines 370-522 look for, folder paths, numbers, and the line
\* break.  A chunk is cut between tokens.
KwStarting == "Starting comparison for:"
KwProgress == "Progress:"
KwFrames == "frames"
KwCompleted == "Successfully completed comparison for:"
KwImplicit == "Frame comparison completed"
KwOverall == "Overall progress:"
KwCurrentFolder == "Current folder:"
Dash == "-"
NewLine == "\n"

\* A path token stands for a folder path: "K1" for one from which
\* extractTestKeyFromPath derives the key K1, "?" for one from which it
\* derives nothing.
PathTokens == TestKeys \cup {"?"}
extractTestKeyFromPath(path) == IF path \in TestKeys THEN path ELSE ""

\* "c/t": the token names the total t (the current count only enters the
\* message).  toInt() of the token.
Digits == <<"1", "2", "3", "4", "5">>
TotalTokens == {Digits[i] : i \in 1..MaxTotal}
ToInt(token) == CHOOSE i \in 1..Len(Digits) : Digits[i] = token

PercentTokens == {"(20%)", "(50%)"}
PercentOf(token) == IF token = "(20%)" THEN 20 ELSE 50

\* "a/b" of the sub-clause "Current folder: a/b frames": both numbers are
\* read.  A folder has 0..MaxFolder frames, of which 0..b are done.
MaxFolder == 3
Numerals == <<"0", "1", "2", "3", "4", "5">>
FolderToken(a, b) == Numerals[a + 1] \o "/" \o Numerals[b + 1]
FolderCounts == {c \in (0..MaxFolder) \X (0..MaxFolder) : c[1] <= c[2]}
FolderTokens == {FolderToken(c[1], c[2]) : c \in FolderCounts}
FolderCountsOf(token) ==
    CHOOSE c \in FolderCounts : FolderToken(c[1], c[2]) = token

StartLine(path) == <<KwStarting, path>>
OverallLine(total, percent) == <<KwOverall, total, KwFrames, percent>>
OverallFolderLine(total, percent, folder) ==
    OverallLine(total, percent) \o <<Dash, KwCurrentFolder, folder, KwFrames>>
ProgressLine(total, percent) == <<KwProgress, total, KwFrames, percent>>
CompletedLine(path) == <<KwCompleted, path>>
ImplicitLine == <<KwImplicit>>

\* The lines the primary process writes in Spec.
Lines == {StartLine(p) : p \in PathTokens} \cup {CompletedLine(p) : p \in PathTokens}

\* QRegExp::indexIn of the patterns, in the order the handler tries them: the
\* leftmost place of the keyword with the tokens the pattern needs after it.
\* (.+) of the start and completion patterns needs text after the keyword.
Classify(piece) ==
    LET n == Len(piece)
        Leftmost(S) == CHOOSE i \in S : \A j \in S : i <= j
        starts == {i \in 1..(n - 1) : piece[i] = KwStarting}
        progs == {i \in 1..(n - 3) :
                     /\ piece[i] = KwProgress
                     /\ piece[i + 1] \in TotalTokens
                     /\ piece[i + 2] = KwFrames
                     /\ piece[i + 3] \in PercentTokens}
        overs == {i \in 1..(n - 3) :
                     /\ piece[i] = KwOverall
                     /\ piece[i + 1] \in TotalTokens
                     /\ piece[i + 2] = KwFrames
                     /\ piece[i + 3] \in PercentTokens}
        folders == {i \in 1..(n - 2) :
                       /\ piece[i] = KwCurrentFolder
                       /\ piece[i + 1] \in FolderTokens
                       /\ piece[i + 2] = KwFrames}
        dones == {i \in 1..(n - 1) : piece[i] = KwCompleted}
        PathAfter(i) == IF i + 1 = n THEN extractTestKeyFromPath(piece[n]) ELSE ""
    IN  IF starts # {}
        THEN [kind |-> "start", key |-> PathAfter(Leftmost(starts))]
        ELSE IF progs # {}
        THEN [kind |-> "progress",
              total |-> ToInt(piece[Leftmost(progs) + 1]),
              percent |-> PercentOf(piece[Leftmost(progs) + 3])]
        ELSE IF overs # {}
        THEN [kind |-> "overall",
              percent |-> PercentOf(piece[Leftmost(overs) + 3]),
              folder |-> IF folders = {} THEN <<>>
                         ELSE FolderCountsOf(piece[Leftmost(folders) + 1])]
        ELSE IF dones # {}
        THEN [kind |-> "completed", key |-> PathAfter(Leftmost(dones))]
        ELSE IF \E i \in 1..n : piece[i] = KwImplicit
        THEN [kind |-> "implicit"]
        ELSE [kind |-> "other"]

RemoveKey(act, key) == [k \in DOMAIN act \ {key} |-> act[k]]

PutKey(act, key, total) ==
    [k \in DOMAIN act \cup {key} |-> IF k = key THEN total ELSE act[k]]

\* The sequence without its first element equal to key (lines 479-484).
RemoveFirst(queue, key) ==
    IF \E i \in 1..Len(queue) : queue[i] = key
    THEN LET i == CHOOSE i \in 1..Len(queue) :
                      /\ queue[i] = key
                      /\ \A j \in 1..(i - 1) : queue[j] # key
         IN  SubSeq(queue, 1, i - 1) \o SubSeq(queue, i + 1, Len(queue))
    ELSE queue

\* findTestKeyByFrameCount with ">=" for "==" at line 643.
findTestKeyByFrameCount_AtLeast(s, frameCount) ==
    LET matchingKeys == SelectSeq(KeyOrder, LAMBDA k :
                            /\ k \in DOMAIN s.act
                            /\ s.act[k] >= frameCount
                            /\ s.act[k] > 0)
        inQueue == {i \in 1..Len(s.queue) :
                        \E j \in 1..Len(matchingKeys) : matchingKeys[j] = s.queue[i]}
    IN  IF matchingKeys = <<>> THEN ""
        ELSE IF Len(matchingKeys) = 1 THEN matchingKeys[1]
        ELSE IF inQueue # {}
             THEN s.queue[CHOOSE i \in inQueue : \A j \in inQueue : j <= i]
        ELSE matchingKeys[1]

\* findTestKeyByFrameCount(frameCount), lines 633-672.
findTestKeyByFrameCount(s, frameCount) ==
    LET matchingKeys == SelectSeq(KeyOrder, LAMBDA k :
                            /\ k \in DOMAIN s.act
                            /\ s.act[k] = frameCount
                            /\ s.act[k] > 0)
        inQueue == {i \in 1..Len(s.queue) :
                        \E j \in 1..Len(matchingKeys) : matchingKeys[j] = s.queue[i]}
    IN  IF matchingKeys = <<>> THEN ""
        ELSE IF Len(matchingKeys) = 1 THEN matchingKeys[1]
        ELSE IF inQueue # {}
             THEN s.queue[CHOOSE i \in inQueue : \A j \in inQueue : j <= i]
        ELSE matchingKeys[1]

\* The oldest queued key that is active with an unknown total, or ""
\* (the loop of lines 404-412).
OldestUnknown(s) ==
    LET idx == {i \in 1..Len(s.queue) :
                    s.queue[i] \in DOMAIN s.act /\ s.act[s.queue[i]] = 0}
    IN  IF idx = {} THEN ""
        ELSE s.queue[CHOOSE i \in idx : \A j \in idx : i <= j]

\* onStartingLine leaving the current key as it was.
onStartingLine_KeepsCurrent(s, key) ==
    IF key = "" THEN s
    ELSE Emit([s EXCEPT !.act = PutKey(@, key, 0), !.queue = Append(@, key)],
              TestProgressUpdated(key, 0, "Starting..."))

\* onStartingLine without the enqueue of line 381.
onStartingLine_NoEnqueue(s, key) ==
    IF key = "" THEN s
    ELSE Emit([s EXCEPT !.cur = key, !.act = PutKey(@, key, 0)],
              TestProgressUpdated(key, 0, "Starting..."))

\* "Starting comparison for:", lines 370-387.
onStartingLine(s, key) ==
    IF key = "" THEN s
    ELSE Emit([s EXCEPT !.cur = key, !.act = PutKey(@, key, 0),
                        !.queue = Append(@, key)],
              TestProgressUpdated(key, 0, "Starting..."))

\* onProgressLine with the overall event only when no test was found.
onProgressLine_OverallIfUnmatched(s, total, percent) ==
    LET byCount == findTestKeyByFrameCount(s, total)
        matched == IF byCount = "" THEN OldestUnknown(s) ELSE byCount
        s1 == IF byCount = "" /\ matched # ""
              THEN [s EXCEPT !.act = PutKey(@, matched, total)] ELSE s
    IN  IF matched # ""
        THEN Emit(s1, TestProgressUpdated(matched, percent, "Processing"))
        ELSE Emit(s1, ProgressUpdated(percent, "Processing"))

\* "Progress: c/t frames (p%)", lines 390-424.
onProgressLine(s, total, percent) ==
    LET byCount == findTestKeyByFrameCount(s, total)
        matched == IF byCount = "" THEN OldestUnknown(s) ELSE byCount
        s1 == IF byCount = "" /\ matched # ""
              THEN [s EXCEPT !.act = PutKey(@, matched, total)] ELSE s
        s2 == IF matched # ""
              THEN Emit(s1, TestProgressUpdated(matched, percent, "Processing"))
              ELSE s1
    IN  Emit(s2, ProgressUpdated(percent, "Processing"))

\* (int)((folderCurrent * 100.0) / folderTotal), line 437.
FolderPercent(folderCurrent, folderTotal) ==
    IF folderTotal > 0 THEN (folderCurrent * 100) \div folderTotal ELSE 0

\* onOverallLine giving the folder's total to every test with an unknown
\* total instead of stopping at the first (the break of line 454).
onOverallLine_EveryUnknown(s, percent, folder) ==
    LET folderTotal == folder[2]
        byCount == findTestKeyByFrameCount(s, folderTotal)
        matched == IF byCount = "" THEN OldestUnknown(s) ELSE byCount
        s1 == IF byCount = "" /\ matched # ""
              THEN [s EXCEPT !.act = [k \in DOMAIN s.act |->
                                         IF s.act[k] = 0 THEN folderTotal
                                         ELSE s.act[k]]]
              ELSE s
        s2 == IF matched # ""
              THEN Emit(s1, TestProgressUpdated(matched,
                                FolderPercent(folder[1], folderTotal),
                                "Processing"))
              ELSE s1
    IN  Emit(IF folder = <<>> THEN s ELSE s2,
             ProgressUpdated(percent, "Processing"))

\* onOverallLine with the aggregate percent in the per-test event.
onOverallLine_AggregatePercent(s, percent, folder) ==
    LET folderTotal == folder[2]
        byCount == findTestKeyByFrameCount(s, folderTotal)
        matched == IF byCount = "" THEN OldestUnknown(s) ELSE byCount
        s1 == IF byCount = "" /\ matched # ""
              THEN [s EXCEPT !.act = PutKey(@, matched, folderTotal)] ELSE s
        s2 == IF matched # ""
              THEN Emit(s1, TestProgressUpdated(matched, percent, "Processing"))
              ELSE s1
    IN  Emit(IF folder = <<>> THEN s ELSE s2,
             ProgressUpdated(percent, "Processing"))

\* "Overall progress: c/t frames (p%)", lines 428-467; folder is <<>>, or
\* <<a, b>> of "Current folder: a/b frames".
onOverallLine(s, percent, folder) ==
    LET folderTotal == folder[2]
        byCount == findTestKeyByFrameCount(s, folderTotal)
        matched == IF byCount = "" THEN OldestUnknown(s) ELSE byCount
        s1 == IF byCount = "" /\ matched # ""
              THEN [s EXCEPT !.act = PutKey(@, matched, folderTotal)] ELSE s
        s2 == IF matched # ""
              THEN Emit(s1, TestProgressUpdated(matched,
                                FolderPercent(folder[1], folderTotal),
                                "Processing"))
              ELSE s1
    IN  Emit(IF folder = <<>> THEN s ELSE s2,
             ProgressUpdated(percent, "Processing"))

\* onCompletedLine clearing the current key whatever it is.
onCompletedLine_ClearsCurrent(s, key) ==
    IF key # ""
    THEN [Emit(s, TestProgressUpdated(key, 100, "Completed"))
            EXCEPT !.act = RemoveKey(@, key),
                   !.queue = RemoveFirst(@, key),
                   !.cur = ""]
    ELSE IF s.cur # ""
    THEN [Emit(s, TestProgressUpdated(s.cur, 100, "Completed"))
            EXCEPT !.act = RemoveKey(@, s.cur), !.cur = ""]
    ELSE s

\* "Successfully completed comparison for:", lines 470-496.
onCompletedLine(s, key) ==
    IF key # ""
    THEN [Emit(s, TestProgressUpdated(key, 100, "Completed"))
            EXCEPT !.act = RemoveKey(@, key),
                   !.queue = RemoveFirst(@, key),
                   !.cur = IF @ = key THEN "" ELSE @]
    ELSE IF s.cur # ""
    THEN [Emit(s, TestProgressUpdated(s.cur, 100, "Completed"))
            EXCEPT !.act = RemoveKey(@, s.cur), !.cur = ""]
    ELSE s

\* onImplicitLine clearing the current key.
onImplicitLine_ClearsCurrent(s) ==
    IF s.cur # ""
    THEN [Emit(s, TestProgressUpdated(s.cur, 100, "Completed"))
            EXCEPT !.act = RemoveKey(@, s.cur), !.cur = ""]
    ELSE s

\* "Frame comparison completed", lines 499-506: the current key stays set.
onImplicitLine(s) ==
    IF s.cur # ""
    THEN [Emit(s, TestProgressUpdated(s.cur, 100, "Completed"))
            EXCEPT !.act = RemoveKey(@, s.cur)]
    ELSE s

\* The body of the second loop (lines 368-523) on one classified line.
onOutputLine(s, line) ==
    IF line.kind = "start" THEN onStartingLine(s, line.key)
    ELSE IF line.kind = "progress"
    THEN onProgressLine(s, line.total, line.percent)
    ELSE IF line.kind = "overall"
    THEN onOverallLine(s, line.percent, line.folder)
    ELSE IF line.kind = "completed" THEN onCompletedLine(s, line.key)
    ELSE IF line.kind = "implicit" THEN onImplicitLine(s)
    ELSE s

\* The first loop (lines 358-364): every non-empty line as a raw line.
RECURSIVE EmitOutputLines(_, _)
EmitOutputLines(s, pieces) ==
    IF pieces = <<>> THEN s
    ELSE EmitOutputLines(Emit(s, OutputLine(Head(pieces), FALSE)), Tail(pieces))

\* The second loop taking the lines from last to first.
RECURSIVE ApplyLines_Backwards(_, _)
ApplyLines_Backwards(s, pieces) ==
    IF pieces = <<>> THEN s
    ELSE LET s1 == ApplyLines_Backwards(s, Tail(pieces))
             r == onOutputLine(s1, Classify(Head(pieces)))
         IN  [r EXCEPT !.order = Registered(@, DOMAIN r.act)]

\* The second loop (lines 367-523): the lines from first to last.  The
\* history of registrations follows each line.
RECURSIVE ApplyLines(_, _)
ApplyLines(s, pieces) ==
    IF pieces = <<>> THEN s
    ELSE LET r == onOutputLine(s, Classify(Head(pieces)))
         IN  ApplyLines([r EXCEPT !.order = Registered(@, DOMAIN r.act)],
                        Tail(pieces))

\* The readyReadStandardOutput lambda of lines 352-524 on the non-empty
\* lines split('\n') finds in the data read.
onReadyReadStandardOutput(s, pieces) ==
    ApplyLines(EmitOutputLines(s, pieces), pieces)

\* output.split('\n', QString::SkipEmptyParts): the data read, cut at the line
\* breaks, without the empty pieces.  Nothing is kept for the next call.
RECURSIVE SplitLines(_)
SplitLines(data) ==
    LET breaks == {i \in 1..Len(data) : data[i] = NewLine}
        first == CHOOSE i \in breaks : \A j \in breaks : i <= j
    IN  IF data = <<>> THEN <<>>
        ELSE IF breaks = {} THEN <<data>>
        ELSE (IF first = 1 THEN <<>> ELSE <<SubSeq(data, 1, first - 1)>>)
             \o SplitLines(SubSeq(data, first + 1, Len(data)))

\* The lambda on the data readAllStandardOutput() returns (lines 353-367).
onReadyRead(s, data) == onReadyReadStandardOutput(s, SplitLines(data))

\* The readyReadStandardOutput lambda of the independent process, lines
\* 270-283: raw lines only.
RECURSIVE onPrepareUIReadyRead(_, _)
onPrepareUIReadyRead(s, pieces) ==
    IF pieces = <<>> THEN s
    ELSE onPrepareUIReadyRead(
             Emit(s, OutputLine(<<"[Phase 4]">> \o Head(pieces), FALSE)),
             Tail(pieces))

\* ---------------------------------------------------------------------
\* ImageLoaderManager: the image cache and the threads that use it.
\* ---------------------------------------------------------------------

\* The GUI thread calls the manager; a pool thread runs a preload task.
Gui == "gui"
Pool == "pool"
Threads == {Gui, Pool}

MaxCacheSize == 2
MaxFrame == 2
DefaultMaxCacheSize == 6

\* "A" is one of the four image types, "X" is not an image type.
ImageTypes == {"A", "X"}
Frames == 0..MaxFrame
CacheSizes == -1..MaxCacheSize
ImagePaths == {"", "dir"}

\* Four-digit formatting is one-to-one, the key is kept as the pair.
getCacheKey(type, frameNumber) == <<type, frameNumber>>
CacheKeys == {getCacheKey(type, f) : type \in ImageTypes, f \in Frames}

NoCall == [op |-> "none", key |-> <<>>, pc |-> "idle", loaded |-> FALSE,
           result |-> "none"]

\* The manager after construction: no paths, empty cache, free mutex.
ImageLoaderManagerInit ==
    /\ m_maxCacheSize = DefaultMaxCacheSize
    /\ m_pathA = ""
    /\ m_cache = {}
    /\ m_cacheAccessOrder = <<>>
    /\ m_cacheMutex = ""
    /\ calls = [t \in Threads |-> NoCall]

(********************************* actions *********************************)

Init ==
    /\ m_mode = "None"
    /\ m_step2Queued = FALSE
    /\ m_testerPath = ""
    /\ m_iniPath = ""
    /\ m_currentTestKey = ""
    /\ m_activeTests = EmptyMap
    /\ m_testKeyQueue = <<>>
    /\ m_process = [state |-> "NotRunning", args |-> ""]
    /\ m_prepareUIProcess = [state |-> "NotRunning"]
    /\ emitted = <<>>
    /\ lastOp = [op |-> "init"]
    /\ startOrder = <<>>
    /\ child = [stream |-> <<>>, pos |-> 0, seen |-> <<>>]
    /\ ImageLoaderManagerInit

\* Inputs a call does not read are fixed, so that lastOp records only what
\* the call depended on.
NoEnv == [exists |-> FALSE, executable |-> FALSE, onPath |-> FALSE,
          start |-> "failed"]
NoExit == [code |-> 0, status |-> "NormalExit"]
Located(env) == env.exists \/ env.onPath
EnvsIf(reached) == IF reached THEN StartEnvs ELSE {NoEnv}
\* Does the exit handler chain into phase two (and so read the environment)?
Chains == m_mode = "CompareThenPrepare" /\ ~m_step2Queued

\* The caller requests a run of all phases.
RunAll ==
    \E t \in Paths, i \in Inis :
        \E env \in EnvsIf(t # "" /\ i # "") :
            Commit(runAll(State, t, i, env),
                   [op |-> "runAll", tester |-> t, ini |-> i,
                    located |-> Located(env)])

\* The caller requests the chained run.
RunCompareAndPrepare ==
    \E t \in Paths, i \in Inis :
        \E env \in EnvsIf(t # "" /\ i # "") :
            Commit(runCompareAndPrepare(State, t, i, env),
                   [op |-> "runCompareAndPrepare", tester |-> t, ini |-> i,
                    located |-> Located(env)])

\* The caller requests the independent phase.
RunPrepareUI ==
    \E t \in Paths, i \in Inis :
        Commit(runPrepareUI(State, t, i),
               [op |-> "runPrepareUI", tester |-> t, ini |-> i])

\* The outcomes of kill() and the wait for a process in this state; a
\* Running process cannot report FailedToStart.
KillsOf(p) ==
    IF p.state = "Running" THEN {"finished", "timeout"}
    ELSE IF p.state = "Starting" THEN KillOutcomes
    ELSE {"none"}
ExitsIf(kill) == IF kill = "finished" THEN Exits ELSE {NoExit}

\* The caller cancels.
Stop ==
    \E k1 \in KillsOf(m_process), k2 \in KillsOf(m_prepareUIProcess) :
        \E x1 \in ExitsIf(k1), x2 \in ExitsIf(k2) :
            \E env \in EnvsIf(k1 = "finished" /\ Chains) :
                Commit(stop(State, k1, x1, env, k2, x2),
                       [op |-> "stop", kill1 |-> k1, exit1 |-> x1,
                        located |-> Located(env), kill2 |-> k2, exit2 |-> x2])

\* The primary process exits by itself: finished() from the event loop.
ProcessFinished ==
    \E x \in Exits, env \in EnvsIf(Chains) :
        /\ m_process.state = "Running"
        /\ Commit(onProcessFinished([State EXCEPT !.proc.state = "NotRunning"],
                                    x, env),
                  [op |-> "processFinished", exit |-> x,
                   located |-> Located(env)])

\* A primary process left Starting by a timed-out waitForStarted starts.
ProcessStarted ==
    /\ m_process.state = "Starting"
    /\ Commit([State EXCEPT !.proc.state = "Running"], [op |-> "processStarted"])

\* ... or reports FailedToStart (no finished() follows).
ProcessFailedToStart ==
    /\ m_process.state = "Starting"
    /\ Commit([State EXCEPT !.proc.state = "NotRunning"],
              [op |-> "processFailedToStart"])

\* The primary process writes a line.
ReadyReadStandardOutput ==
    \E line \in Lines :
        /\ m_process.state = "Running"
        /\ line[1] = KwStarting => Len(m_testKeyQueue) < MaxQueue
        /\ Commit(onReadyReadStandardOutput(State, <<line>>),
                  [op |-> "readyRead", line |-> line])

\* The independent process exits by itself.
PrepareUIProcessFinished ==
    \E x \in Exits :
        /\ m_prepareUIProcess.state = "Running"
        /\ Commit(onPrepareUIProcessFinished(
                      [State EXCEPT !.prep.state = "NotRunning"], x),
                  [op |-> "prepareUIFinished", exit |-> x])

\* The independent process writes a line (the same tool: the same wording).
PrepareUIReadyRead ==
    \E line \in {StartLine("K1"), ProgressLine("1", "(20%)")} :
        /\ m_prepareUIProcess.state = "Running"
        /\ Commit(onPrepareUIReadyRead(State, <<line>>),
                  [op |-> "prepareUIReadyRead", line |-> line])

PrepareUIProcessStarted ==
    /\ m_prepareUIProcess.state = "Starting"
    /\ Commit([State EXCEPT !.prep.state = "Running"],
              [op |-> "prepareUIStarted"])

PrepareUIProcessFailedToStart ==
    /\ m_prepareUIProcess.state = "Starting"
    /\ Commit([State EXCEPT !.prep.state = "NotRunning"],
              [op |-> "prepareUIFailedToStart"])

Next ==
    \/ RunAll
    \/ RunCompareAndPrepare
    \/ RunPrepareUI
    \/ Stop
    \/ ProcessFinished
    \/ ProcessStarted
    \/ ProcessFailedToStart
    \/ ReadyReadStandardOutput
    \/ PrepareUIProcessFinished
    \/ PrepareUIReadyRead
    \/ PrepareUIProcessStarted
    \/ PrepareUIProcessFailedToStart

Spec == Init /\ [][Next]_vars

(****************************** the properties *****************************)

(************ the tracker under every kind of line: TrackerSpec ************)

\* The queue length up to which start lines are read in TrackerSpec.
TrackerMaxQueue == 3

\* The lines of the primary process in TrackerSpec.
TrackerLines ==
    Lines \cup {ImplicitLine}
          \cup {ProgressLine(t, p) : t \in TotalTokens, p \in PercentTokens}

\* The tester is installed and starts.
Installed == [exists |-> TRUE, executable |-> TRUE, onPath |-> FALSE,
              start |-> "started"]

TrackerRunAll ==
    Commit(runAll(State, "tester", "ini", Installed),
           [op |-> "runAll", tester |-> "tester", ini |-> "ini",
            located |-> TRUE])

TrackerReadyRead ==
    \E line \in TrackerLines :
        /\ m_process.state = "Running"
        /\ line[1] = KwStarting => Len(m_testKeyQueue) < TrackerMaxQueue
        /\ Commit(onReadyReadStandardOutput(State, <<line>>),
                  [op |-> "readyRead", line |-> line])

TrackerProcessFinished ==
    /\ m_process.state = "Running"
    /\ Commit(onProcessFinished([State EXCEPT !.proc.state = "NotRunning"],
                                NoExit, NoEnv),
              [op |-> "processFinished", exit |-> NoExit,
               located |-> FALSE])

TrackerNext == TrackerRunAll \/ TrackerReadyRead \/ TrackerProcessFinished

TrackerSpec == Init /\ [][TrackerNext]_vars

(******** the tracker under overall progress lines: OverallSpec ************)

\* The queue length up to which start lines are read in OverallSpec.
OverallMaxQueue == 2

\* The lines of the primary process in OverallSpec: the overall progress
\* lines, with and without the sub-clause, among start, progress and
\* completion lines.  The aggregate counts "c/t" enter the message only.
OverallLines ==
    {StartLine(k) : k \in TestKeys}
        \cup {CompletedLine(k) : k \in TestKeys}
        \cup {ImplicitLine}
        \cup {ProgressLine(t, "(50%)") : t \in TotalTokens}
        \cup {OverallLine("1", p) : p \in PercentTokens}
        \cup {OverallFolderLine("1", "(20%)", f) : f \in FolderTokens}

OverallReadyRead ==
    \E line \in OverallLines :
        /\ m_process.state = "Running"
        /\ line[1] = KwStarting => Len(m_testKeyQueue) < OverallMaxQueue
        /\ Commit(onReadyReadStandardOutput(State, <<line>>),
                  [op |-> "readyRead", line |-> line])

OverallNext == TrackerRunAll \/ OverallReadyRead \/ TrackerProcessFinished

OverallSpec == Init /\ [][OverallNext]_vars

(******** the output stream cut into notifications: ChunkSpec **************)

\* The number of lines of the child's output in ChunkSpec.
MaxLines == 2

ChunkLines ==
    {StartLine("K1"), StartLine("K2"), ProgressLine("1", "(20%)"),
     CompletedLine("K1")}

RECURSIVE Flatten(_)
Flatten(lines) ==
    IF lines = <<>> THEN <<>>
    ELSE Head(lines) \o <<NewLine>> \o Flatten(Tail(lines))

\* What the child writes: one to MaxLines lines, each ended by a line break.
Streams ==
    {Flatten(ls) : ls \in UNION {[1..n -> ChunkLines] : n \in 1..MaxLines}}

IsClassified(e) == e.sig # "outputLine"

ChunkInit ==
    /\ m_mode = "None"
    /\ m_step2Queued = FALSE
    /\ m_testerPath = ""
    /\ m_iniPath = ""
    /\ m_currentTestKey = ""
    /\ m_activeTests = EmptyMap
    /\ m_testKeyQueue = <<>>
    /\ m_process = [state |-> "NotRunning", args |-> ""]
    /\ m_prepareUIProcess = [state |-> "NotRunning"]
    /\ emitted = <<>>
    /\ lastOp = [op |-> "init"]
    /\ startOrder = <<>>
    /\ \E stream \in Streams :
          child = [stream |-> stream, pos |-> 0, seen |-> <<>>]
    /\ ImageLoaderManagerInit

ChunkRunAll ==
    /\ m_process.state = "NotRunning" /\ child.pos = 0
    /\ Commit(runAll(State, "tester", "ini", Installed),
              [op |-> "runAll", tester |-> "tester", ini |-> "ini",
               located |-> TRUE])

\* readyReadStandardOutput with the next n tokens of the stream available.
DeliverChunk ==
    \E n \in 1..(Len(child.stream) - child.pos) :
        LET data == SubSeq(child.stream, child.pos + 1, child.pos + n)
            s == onReadyRead(State, data)
        IN  /\ m_process.state = "Running"
            /\ CommitFields(s, [op |-> "readyReadChunk", data |-> data])
            /\ child' = [child EXCEPT !.pos = @ + n,
                                      !.seen = @ \o SelectSeq(s.out, IsClassified)]
            /\ UNCHANGED cacheVars

\* The child exits after its output was read.
ChunkProcessFinished ==
    /\ m_process.state = "Running"
    /\ child.pos = Len(child.stream)
    /\ Commit(onProcessFinished([State EXCEPT !.proc.state = "NotRunning"],
                                NoExit, NoEnv),
              [op |-> "processFinished", exit |-> NoExit,
               located |-> FALSE])

ChunkNext == ChunkRunAll \/ DeliverChunk \/ ChunkProcessFinished

ChunkSpec == ChunkInit /\ [][ChunkNext]_vars

(*************** the derivation of a test key: PathSpec ********************)

\* A folder path is a sequence of tokens: separators and whole segments.
Slash == "/"
Backslash == "\\"
Separators == {Slash, Backslash}
\* Segments that contain "testsets_results" once lower-cased.
MarkerTokens == {"testSets_results", "TESTSETS_RESULTS"}
\* The segments by the character classes of testKeyRegex (line 614):
\* [A-Za-z0-9_\s]+, [A-Z0-9_]+, [A-Z0-9]+ and F\d+.  "C:" ends in a character
\* of no class.
WordSegments == {"root", "Cat", "Ev", "Set", "EV", "SET", "F0007", "rest"}
UpperSegments == {"EV", "SET", "F0007"}
FrameSegments == {"F0007"}

\* normalizedPath.replace("\\", "/"), line 575.
Normalized(path) ==
    [i \in 1..Len(path) |-> IF path[i] = Backslash THEN Slash ELSE path[i]]

\* QString::split("/"): the pieces between the slashes, empty ones kept.
RECURSIVE SplitPath(_)
SplitPath(path) ==
    LET slashes == {i \in 1..Len(path) : path[i] = Slash}
        first == CHOOSE i \in slashes : \A j \in slashes : i <= j
    IN  IF slashes = {} THEN <<path>>
        ELSE <<SubSeq(path, 1, first - 1)>>
             \o SplitPath(SubSeq(path, first + 1, Len(path)))

\* QStringList::join("/").
RECURSIVE JoinPath(_)
JoinPath(parts) ==
    IF parts = <<>> THEN <<>>
    ELSE IF Len(parts) = 1 THEN parts[1]
    ELSE parts[1] \o <<Slash>> \o JoinPath(Tail(parts))

\* Lines 594-603: the slashes at the front are skipped, those at the end
\* chopped.
RECURSIVE SkipSlashes(_)
SkipSlashes(path) ==
    IF path # <<>> /\ Head(path) = Slash THEN SkipSlashes(Tail(path)) ELSE path
RECURSIVE ChopSlashes(_)
ChopSlashes(path) ==
    IF path # <<>> /\ path[Len(path)] = Slash
    THEN ChopSlashes(SubSeq(path, 1, Len(path) - 1)) ELSE path

\* testKeyRegex.indexIn (lines 614-615) on the pieces of the path: the match
\* ends at a piece j that begins with F and digits, after a piece of
\* [A-Z0-9]+, a piece of [A-Z0-9_]+ and a non-empty run of word characters
\* and slashes; it starts as far left as it can and then ends as far right
\* as it can.  The result is the index j, or 0.
IsWord(part) == Len(part) = 1 /\ part[1] \in WordSegments \cup MarkerTokens
IsUpper(part) == Len(part) = 1 /\ part[1] \in UpperSegments
IsUpperOrUnderscore(part) ==
    Len(part) = 1 /\ part[1] \in UpperSegments \cup {"TESTSETS_RESULTS"}
IsFrame(part) == Len(part) = 1 /\ part[1] \in FrameSegments
RunStart(parts, j) ==
    CHOOSE i \in 1..(j - 3) :
        /\ \A k \in i..(j - 3) : parts[k] = <<>> \/ IsWord(parts[k])
        /\ \A h \in 1..(i - 1) :
              \E k \in h..(j - 3) : ~(parts[k] = <<>> \/ IsWord(parts[k]))
MatchEnds(parts) ==
    {j \in 4..Len(parts) :
        /\ IsFrame(parts[j]) /\ IsUpper(parts[j - 1])
        /\ IsUpperOrUnderscore(parts[j - 2])
        /\ IsWord(parts[j - 3]) \/ (parts[j - 3] = <<>> /\ j - 3 > 1)}
testKeyRegex(parts) ==
    LET ends == MatchEnds(parts)
        leftmost == CHOOSE i \in {RunStart(parts, j) : j \in ends} :
                        \A j \in ends : i <= RunStart(parts, j)
        reached == {j \in ends : RunStart(parts, j) = leftmost}
    IN  IF ends = {} THEN 0
        ELSE CHOOSE j \in reached : \A k \in reached : k <= j

\* extractTestKeyFromPath on a folder path given by its tokens, lines 567-631.
extractTestKeyFromFolderPath(folderPath) ==
    LET normalizedPath == Normalized(folderPath)
        markers == {i \in 1..Len(normalizedPath) :
                        normalizedPath[i] \in MarkerTokens}
        testSetsResultsIndex == CHOOSE i \in markers : \A j \in markers : i <= j
        parts == SplitPath(normalizedPath)
        j == testKeyRegex(parts)
    IN  IF markers # {}
        THEN ChopSlashes(SkipSlashes(
                 SubSeq(normalizedPath, testSetsResultsIndex + 1,
                        Len(normalizedPath))))
        ELSE IF j # 0 THEN JoinPath(SubSeq(parts, j - 3, j))
        ELSE <<>>

\* The separators that may follow one another in a folder path of PathSpec.
MaxSeps == 2

RECURSIVE Repeat(_, _)
Repeat(token, n) == IF n = 0 THEN <<>> ELSE <<token>> \o Repeat(token, n - 1)

\* The folder paths of PathSpec: a front, the results root or none, four
\* segments, and what follows them, in one separator style.
FolderPathsIn(sep) ==
    LET fronts == {<<>>, <<"C:", sep>>, <<sep, "root", sep>>}
        roots == {<<>>} \cup
                 {<<m>> \o Repeat(sep, n) : m \in MarkerTokens, n \in 1..MaxSeps}
        fours == {<<"Cat", sep, "Ev", sep, "Set", sep, "F0007">>,
                  <<"Cat", sep, "EV", sep, "SET", sep, "F0007">>}
        rests == {<<>>, <<sep>>, <<sep, "rest">>, <<sep, "rest", sep>>}
    IN  {f \o r \o k \o e : f \in fronts, r \in roots, k \in fours, e \in rests}
FolderPaths == UNION {FolderPathsIn(sep) : sep \in Separators}

\* The key of a folder path is derived.
ExtractTestKeyFromPath ==
    \E path \in FolderPaths :
        /\ lastOp' = [op |-> "extractTestKeyFromPath", path |-> path,
                      key |-> extractTestKeyFromFolderPath(path)]
        /\ UNCHANGED <<m_mode, m_step2Queued, m_testerPath, m_iniPath,
                       m_currentTestKey, m_activeTests, m_testKeyQueue,
                       m_process, m_prepareUIProcess, emitted, startOrder,
                       child, cacheVars>>

PathSpec == Init /\ [][ExtractTestKeyFromPath]_vars

\* ---------------------------------------------------------------------
\* ImageLoaderManager calls.  A call is a function from the manager's
\* state c = [max, path, cache, order, mutex, calls, out] to its next state;
\* a step that takes the mutex and releases it again is one action.
\* ---------------------------------------------------------------------

Cache == [max |-> m_maxCacheSize, path |-> m_pathA, cache |-> m_cache,
          order |-> m_cacheAccessOrder, mutex |-> m_cacheMutex,
          calls |-> calls, out |-> <<>>]

CacheCommit(c, op) ==
    /\ m_maxCacheSize' = c.max
    /\ m_pathA' = c.path
    /\ m_cache' = c.cache
    /\ m_cacheAccessOrder' = c.order
    /\ m_cacheMutex' = c.mutex
    /\ calls' = c.calls
    /\ emitted' = c.out
    /\ lastOp' = op
    /\ UNCHANGED runnerVars

ImageLoaded(key) == [sig |-> "imageLoaded", key |-> key]
ImageLoadFailed(key) == [sig |-> "imageLoadFailed", key |-> key]
ErrorOccurred == [sig |-> "errorOccurred"]

RemoveAll(list, key) == SelectSeq(list, LAMBDA k : k # key)

\* QList::removeAll then append: the key becomes the most recently used.
Touch(list, key) == Append(RemoveAll(list, key), key)

Returned(c, t, result) ==
    [c EXCEPT !.calls[t].pc = "idle", !.calls[t].result = result]

Entered(c, t, op, key) ==
    [c EXCEPT !.calls[t] = [op |-> op, key |-> key, pc |-> "idle",
                            loaded |-> FALSE, result |-> "none"]]

\* The lookup of getImageIfCached; with the cache enabled it runs under the
\* mutex, which the caller's guard finds free.
Lookup(c, key) ==
    IF c.max = 0 THEN [hit |-> FALSE, order |-> c.order]
    ELSE IF key \in c.cache THEN [hit |-> TRUE, order |-> Touch(c.order, key)]
    ELSE [hit |-> FALSE, order |-> c.order]

getImageIfCached(c, t, key) ==
    LET l == Lookup(c, key)
    IN  Returned([Entered(c, t, "getImageIfCached", key) EXCEPT
                      !.order = l.order],
                 t, IF l.hit THEN "image" ELSE "null")

\* The loop of evictOldestIfNeeded.
RECURSIVE EvictLoop(_, _, _)
EvictLoop(cache, order, max) ==
    IF Cardinality(cache) >= max /\ order # <<>>
    THEN EvictLoop(cache \ {Head(order)}, Tail(order), max)
    ELSE [cache |-> cache, order |-> order]

\* evictOldestIfNeeded on thread t.  QMutex is not recursive: locking it
\* while it is held never returns, whoever holds it.
evictOldestIfNeeded(c, t) ==
    IF c.max = 0 THEN c
    ELSE IF c.mutex # "" THEN [c EXCEPT !.calls[t].pc = "deadlock"]
    ELSE LET e == EvictLoop(c.cache, c.order, c.max)
         IN  [c EXCEPT !.cache = e.cache, !.order = e.order]

\* getImage up to its cache check.
getImage(c, t, key) ==
    LET e == Entered(c, t, "getImage", key)
    IN  IF key[2] < 1
        THEN Returned([e EXCEPT !.out = <<ErrorOccurred>>], t, "null")
        ELSE [e EXCEPT !.calls[t].pc = "check"]

getImage_Check(c, t) ==
    LET l == Lookup(c, c.calls[t].key)
    IN  IF c.max > 0 /\ l.hit
        THEN Returned([c EXCEPT !.order = l.order], t, "image")
        ELSE [c EXCEPT !.calls[t].pc = "load"]

\* loadImageFromDisk: fails for an unknown type and without a base path,
\* otherwise the file is there and readable or it is not.
LoadOutcomes(c, key) ==
    IF key[1] = "A" /\ c.path # "" THEN {TRUE, FALSE} ELSE {FALSE}

\* A failed load reports an error, except for a type without base path.
LoadErrors(c, key) ==
    IF key[1] = "A" /\ c.path = "" THEN <<>> ELSE <<ErrorOccurred>>

getImage_Load(c, t, ok) ==
    LET key == c.calls[t].key
    IN  IF ~ok
        THEN Returned([c EXCEPT !.out = LoadErrors(c, key)
                                          \o <<ImageLoadFailed(key)>>],
                      t, "null")
        ELSE IF c.max > 0
        THEN [c EXCEPT !.calls[t].pc = "insert", !.calls[t].loaded = TRUE]
        ELSE Returned([c EXCEPT !.out = <<ImageLoaded(key)>>,
                                !.calls[t].loaded = TRUE], t, "image")

\* The insertion of getImage: under the mutex the image is stored, made the
\* most recently used, and evictOldestIfNeeded is called with the mutex held.
getImage_Insert(c, t) ==
    LET key == c.calls[t].key
        locked == [c EXCEPT !.mutex = t,
                            !.cache = @ \cup {key},
                            !.order = Touch(@, key)]
        e == evictOldestIfNeeded(locked, t)
    IN  IF e.calls[t].pc = "deadlock" THEN e
        ELSE Returned([e EXCEPT !.mutex = "", !.out = <<ImageLoaded(key)>>],
                      t, "image")

clearCache(c, t) ==
    Returned([Entered(c, t, "clearCache", <<>>) EXCEPT
                  !.cache = {}, !.order = <<>>], t, "none")

setImagePaths(c, t, pathA) ==
    LET cleared == clearCache([c EXCEPT !.path = pathA], t)
    IN  [cleared EXCEPT !.calls[t].op = "setImagePaths"]

setMaxCacheSize(c, t, maxSize) ==
    LET e == Returned(Entered(c, t, "setMaxCacheSize", <<>>), t, "none")
    IN  IF maxSize < 0 THEN e ELSE [e EXCEPT !.max = maxSize]

\* preloadImage on the GUI thread: a miss starts a task on the pool thread,
\* whose run() is getImage.
preloadImage(c, t, key) ==
    LET e == Entered(c, t, "preloadImage", key)
        l == Lookup(c, key)
    IN  IF c.max = 0 \/ l.hit
        THEN Returned([e EXCEPT !.order = l.order], t, "none")
        ELSE getImage(Returned(e, t, "none"), Pool, key)

Idle(t) == calls[t].pc = "idle"
Quiet == \A t \in Threads : Idle(t)
MutexFree == m_cacheMutex = ""

SetMaxCacheSize ==
    \E maxSize \in CacheSizes :
        /\ Quiet
        /\ CacheCommit(setMaxCacheSize(Cache, Gui, maxSize),
                       [op |-> "setMaxCacheSize", maxSize |-> maxSize])

SetImagePaths ==
    \E pathA \in ImagePaths :
        /\ Quiet
        /\ CacheCommit(setImagePaths(Cache, Gui, pathA),
                       [op |-> "setImagePaths", pathA |-> pathA])

ClearCache ==
    /\ Idle(Gui) /\ MutexFree
    /\ CacheCommit(clearCache(Cache, Gui), [op |-> "clearCache"])

GetImageIfCached ==
    \E key \in CacheKeys :
        /\ Idle(Gui)
        /\ m_maxCacheSize = 0 \/ MutexFree
        /\ CacheCommit(getImageIfCached(Cache, Gui, key),
                       [op |-> "getImageIfCached", key |-> key])

GetImage ==
    \E key \in CacheKeys :
        /\ Idle(Gui)
        /\ CacheCommit(getImage(Cache, Gui, key),
                       [op |-> "getImage", key |-> key])

PreloadImage ==
    \E key \in CacheKeys :
        /\ Idle(Gui) /\ Idle(Pool)
        /\ m_maxCacheSize = 0 \/ MutexFree
        /\ CacheCommit(preloadImage(Cache, Gui, key),
                       [op |-> "preloadImage", key |-> key])

GetImageCheck ==
    \E t \in Threads :
        /\ calls[t].pc = "check"
        /\ m_maxCacheSize = 0 \/ MutexFree
        /\ CacheCommit(getImage_Check(Cache, t),
                       [op |-> "getImage_Check", thread |-> t])

GetImageLoad ==
    \E t \in Threads :
        /\ calls[t].pc = "load"
        /\ \E ok \in LoadOutcomes(Cache, calls[t].key) :
              CacheCommit(getImage_Load(Cache, t, ok),
                          [op |-> "getImage_Load", thread |-> t, ok |-> ok])

GetImageInsert ==
    \E t \in Threads :
        /\ calls[t].pc = "insert"
        /\ MutexFree
        /\ CacheCommit(getImage_Insert(Cache, t),
                       [op |-> "getImage_Insert", thread |-> t])

CacheNext ==
    \/ SetMaxCacheSize
    \/ SetImagePaths
    \/ ClearCache
    \/ GetImageIfCached
    \/ GetImage
    \/ PreloadImage
    \/ GetImageCheck
    \/ GetImageLoad
    \/ GetImageInsert

CacheSpec == Init /\ [][CacheNext]_vars

IsRunFinished(e) == e.sig = "runFinished"
\* The outcome an exit handler emits carries the (empty) captured stderr.
IsExitOutcome(e) == e.sig = "runFinished" /\ e.stdErr = ""
IsLaunchFailure(e) ==
    e.sig = "runFinished"
    /\ e.stdErr \in {"Program not found", "Failed to start process"}
IsNotFound(e) == e.sig = "runFinished" /\ e.stdErr = "Program not found"
IsRejection(e) ==
    e.sig = "runFinished"
    /\ e.stdErr \in {"Invalid tester path", "Invalid INI path"}
IsCancelled(e) == e.sig = "testProgressUpdated" /\ e.message = "Cancelled"
Count(seq, P(_)) == Len(SelectSeq(seq, P))
CleanExit == [code |-> 0, status |-> "NormalExit"]
IsRunRequest(op) == op.op \in {"runAll", "runCompareAndPrepare"}
Accepted(op) == IsRunRequest(op) /\ op.tester # "" /\ op.ini # ""

\* C1: in a chained run the exit (code 0, NormalExit) of phase one keeps the
\* mode CompareThenPrepare, sets the step-two flag and launches "prepare-ui"
\* on the primary process without emitting an outcome for that exit (none at
\* all when phase two started); the exit of phase two then emits the one
\* outcome of the run, labelled "compare+prepare", and returns to mode None.
C1_ChainedSecondPhase ==
    [][/\ (/\ lastOp'.op = "processFinished"
           /\ lastOp'.exit = CleanExit
           /\ m_mode = "CompareThenPrepare" /\ ~m_step2Queued)
          => /\ m_mode' = "CompareThenPrepare"
             /\ m_step2Queued'
             /\ m_process'.args = "prepare-ui"
             /\ Count(emitted', IsExitOutcome) = 0
             /\ m_process'.state = "Running" => Count(emitted', IsRunFinished) = 0
             /\ lastOp'.located => m_process'.state # "NotRunning"
                                   \/ Count(emitted', IsLaunchFailure) = 1
       /\ (/\ lastOp'.op = "processFinished"
           /\ m_mode = "CompareThenPrepare" /\ m_step2Queued)
          => /\ m_mode' = "None"
             /\ SelectSeq(emitted', IsRunFinished)
                  = <<RunFinished(lastOp'.exit = CleanExit, "compare+prepare",
                                  lastOp'.exit.code, "")>>
      ]_vars

\* Phase one has just exited cleanly and phase two is running.
C1_Witness ==
    /\ lastOp.op = "processFinished"
    /\ lastOp.exit = CleanExit
    /\ m_mode = "CompareThenPrepare"
    /\ m_step2Queued
    /\ m_process = [state |-> "Running", args |-> "prepare-ui"]
    /\ Count(emitted, IsRunFinished) = 0

\* C2: stop() called while the primary process runs with n >= 1 active test
\* keys (and nothing on the independent channel) emits exactly n "Cancelled"
\* events, one per active key, then exactly one run-finished event, a
\* failure, and leaves mode None.
C2_CancelEmitsCancelledPerKey ==
    [][(/\ lastOp'.op = "stop"
        /\ m_process.state = "Running"
        /\ ~Alive(m_prepareUIProcess)
        /\ DOMAIN m_activeTests # {})
       => LET cancelled == SelectSeq(emitted', IsCancelled)
              n == Cardinality(DOMAIN m_activeTests)
          IN  /\ Len(cancelled) = n
              /\ {cancelled[i].testKey : i \in 1..n} = DOMAIN m_activeTests
              /\ Count(emitted', IsRunFinished) = 1
              /\ IsRunFinished(emitted'[Len(emitted')])
              /\ ~emitted'[Len(emitted')].success
              /\ m_mode' = "None"
              /\ ~m_step2Queued'
      ]_vars

\* C3: after stop(), called with the coordinator Idle or with a run on the
\* primary process, and with every kill taking effect within its wait: mode
\* None, step-two flag false, tracker empty, no process running or starting.
C3_StopReturnsToIdle ==
    [][(/\ lastOp'.op = "stop"
        /\ lastOp'.kill1 # "timeout"
        /\ lastOp'.kill2 # "timeout"
        /\ m_mode = "None" \/ Alive(m_process))
       => /\ m_mode' = "None"
          /\ ~m_step2Queued'
          /\ m_activeTests' = EmptyMap
          /\ m_testKeyQueue' = <<>>
          /\ ~Alive(m_process')
          /\ ~Alive(m_prepareUIProcess')
      ]_vars

\* C4: runAll or runCompareAndPrepare with an empty tester path or an empty
\* INI path emits one failure run-finished event and nothing else, and
\* changes no field and no process.
C4_RejectedRequest ==
    [][(/\ IsRunRequest(lastOp')
        /\ lastOp'.tester = "" \/ lastOp'.ini = "")
       => /\ Len(emitted') = 1
          /\ IsRejection(emitted'[1])
          /\ ~emitted'[1].success
          /\ emitted'[1].mode = ModeStr(IF lastOp'.op = "runAll" THEN "All"
                                        ELSE "CompareThenPrepare")
          /\ UNCHANGED <<m_mode, m_step2Queued, m_testerPath, m_iniPath,
                         m_currentTestKey, m_activeTests, m_testKeyQueue,
                         m_process, m_prepareUIProcess>>
      ]_vars

\* A request with an empty tester path was rejected in the middle of a run
\* that has an active test.
C4_Witness ==
    /\ IsRunRequest(lastOp)
    /\ lastOp.tester = ""
    /\ lastOp.ini # ""
    /\ m_mode = "CompareThenPrepare"
    /\ m_testerPath # ""
    /\ m_process.state = "Running"
    /\ m_activeTests # EmptyMap
    /\ m_currentTestKey # ""

\* C5: every exit of a supervised process that ends a run (an exit on the
\* independent channel, or an exit on the primary channel other than phase
\* one of a chained run chaining into phase two), by itself or killed by
\* stop(), comes with exactly one run-finished event.
C5_OneOutcomePerExit ==
    [][LET op == lastOp'
           primary == IF \/ op.op = "processFinished"
                         \/ op.op = "stop" /\ op.kill1 = "finished"
                      THEN 1 ELSE 0
           independent == IF \/ op.op = "prepareUIFinished"
                             \/ op.op = "stop" /\ op.kill2 = "finished"
                          THEN 1 ELSE 0
       IN  (primary + independent > 0 /\ ~(primary = 1 /\ Chains))
           => Count(emitted', IsRunFinished) = primary + independent
      ]_vars

\* C6: the outcome an exit handler emits has success = (NormalExit and code
\* 0) and carries the exit code, on both channels, for an exit by itself and
\* for one forced by stop(); the exit that ends a run emits exactly one.
C6_SuccessIffCleanExit ==
    LET Matches(e, exit) ==
            e.success = (exit.status = "NormalExit" /\ exit.code = 0)
            /\ e.exitCode = exit.code
        OutcomesMatch(exit1, exit2) ==
            \A i \in 1..Len(emitted) :
                IsExitOutcome(emitted[i])
                => Matches(emitted[i], IF emitted[i].mode = "prepare-ui"
                                       THEN exit2 ELSE exit1)
    IN  /\ lastOp.op = "processFinished"
           => /\ OutcomesMatch(lastOp.exit, NoExit)
              /\ m_mode = "None" => Count(emitted, IsExitOutcome) = 1
        /\ lastOp.op = "prepareUIFinished"
           => /\ OutcomesMatch(NoExit, lastOp.exit)
              /\ Count(emitted, IsExitOutcome) = 1
        /\ lastOp.op = "stop" => OutcomesMatch(lastOp.exit1, lastOp.exit2)

\* A process that crashed with exit code 0 was reported as a failure.
C6_Witness ==
    /\ lastOp.op = "processFinished"
    /\ lastOp.exit = [code |-> 0, status |-> "CrashExit"]
    /\ emitted = <<ProgressUpdated(100, "Processing completed"),
                   RunFinished(FALSE, "all", 0, "")>>

\* C7: a call that emits a failure outcome for the primary run (launch
\* failure, failed exit, cancellation; not the rejection of a request) leaves
\* mode None and the step-two flag false, and an accepted request whose
\* program cannot be located emits such an outcome.
C7_FailureLeavesIdle ==
    /\ (\E i \in 1..Len(emitted) :
            /\ IsRunFinished(emitted[i])
            /\ ~emitted[i].success
            /\ emitted[i].mode # "prepare-ui"
            /\ ~IsRejection(emitted[i]))
       => m_mode = "None" /\ ~m_step2Queued
    /\ (Accepted(lastOp) /\ ~lastOp.located)
       => \E i \in 1..Len(emitted) :
              IsRunFinished(emitted[i]) /\ ~emitted[i].success

\* C8: an exit of the primary process that is not (NormalExit, code 0) emits
\* a run-finished event with success = false and that exit code.
C8_CrashReported ==
    (lastOp.op = "processFinished" /\ lastOp.exit # CleanExit)
    => \E i \in 1..Len(emitted) :
           /\ IsExitOutcome(emitted[i])
           /\ ~emitted[i].success
           /\ emitted[i].exitCode = lastOp.exit.code

\* C9: a call of startProcess (from an accepted request, or from the exit
\* handler chaining into phase two) that cannot locate the program emits
\* exactly one run-finished event of its own, (false, "unknown", -1,
\* "Program not found"), and starts no process.
C9_ProgramNotFound ==
    [][(/\ \/ Accepted(lastOp')
           \/ lastOp'.op = "processFinished" /\ Chains
           \/ lastOp'.op = "stop" /\ lastOp'.kill1 = "finished" /\ Chains
        /\ ~lastOp'.located)
       => /\ SelectSeq(emitted', IsLaunchFailure)
               = <<RunFinished(FALSE, "unknown", -1, "Program not found")>>
          /\ m_process'.state = IF IsRunRequest(lastOp')
                                THEN m_process.state ELSE "NotRunning"
      ]_vars

\* A run of all phases was requested with valid paths and no program.
C9_Witness ==
    /\ lastOp = [op |-> "runAll", tester |-> "tester", ini |-> "ini",
                 located |-> FALSE]
    /\ m_process.state = "NotRunning"
    /\ emitted = <<RunStarted("all"),
                   RunFinished(FALSE, "unknown", -1, "Program not found")>>

\* C10, in the form a finite run refutes: every child exits, so every run
\* reaches a state with no primary process running or starting; the
\* coordinator is Idle again only if the mode is None there.
C10_QuiescentIsIdle ==
    ~Alive(m_process) => m_mode = "None" /\ ~m_step2Queued

\* C11: runPrepareUI with a tester path and an INI path while the independent
\* process is running or starting changes nothing and emits nothing: no
\* second start, no runStarted, no runFinished.
C11_DuplicateIndependentPhase ==
    [][(/\ lastOp'.op = "runPrepareUI"
        /\ lastOp'.tester # "" /\ lastOp'.ini # ""
        /\ Alive(m_prepareUIProcess))
       => (/\ emitted' = <<>>
           /\ UNCHANGED <<m_mode, m_step2Queued, m_testerPath, m_iniPath,
                          m_currentTestKey, m_activeTests, m_testKeyQueue,
                          m_process, m_prepareUIProcess>>)]_vars

\* A duplicate request was made while the independent process was alive.
C11_Witness ==
    /\ lastOp.op = "runPrepareUI"
    /\ lastOp.tester # "" /\ lastOp.ini # ""
    /\ emitted = <<>>
    /\ Alive(m_prepareUIProcess)

IndependentOps ==
    {"runPrepareUI", "prepareUIReadyRead", "prepareUIFinished",
     "prepareUIStarted", "prepareUIFailedToStart"}
PrimaryOutputOps == {"readyRead", "processFinished"}

\* C12: a request for the independent phase, its start, its output and its
\* exit leave the primary run's mode, step-two flag, tracker and process
\* alone and emit no per-test progress, and the outcome they emit is labelled
\* "prepare-ui"; the primary process's output and exit leave the independent
\* process alone and emit no outcome labelled "prepare-ui".
C12_ChannelsIndependent ==
    [][/\ lastOp'.op \in IndependentOps
          => (/\ UNCHANGED <<m_mode, m_step2Queued, m_currentTestKey,
                             m_activeTests, m_testKeyQueue, m_process>>
              /\ \A i \in 1..Len(emitted') :
                    /\ emitted'[i].sig # "testProgressUpdated"
                    /\ IsRunFinished(emitted'[i])
                          => emitted'[i].mode = "prepare-ui")
       /\ lastOp'.op \in PrimaryOutputOps
          => (/\ UNCHANGED m_prepareUIProcess
              /\ \A i \in 1..Len(emitted') :
                    IsRunFinished(emitted'[i])
                       => emitted'[i].mode # "prepare-ui")]_vars

\* The independent process exited while the chained run was in its second
\* phase with a test being tracked.
C12_Witness ==
    /\ lastOp.op = "prepareUIFinished"
    /\ m_mode = "CompareThenPrepare" /\ m_step2Queued
    /\ m_process.state = "Running"
    /\ DOMAIN m_activeTests # {}
    /\ \E i \in 1..Len(emitted) : IsRunFinished(emitted[i])

(* The step reads a progress line; Total and Percent are what it carries. *)
IsProgressStep == lastOp'.op = "readyRead" /\ lastOp'.line[1] = KwProgress
Total == ToInt(lastOp'.line[2])
Percent == PercentOf(lastOp'.line[4])
\* The step reads a start line from whose path a key is derived.
IsStartStep ==
    /\ lastOp'.op = "readyRead" /\ lastOp'.line[1] = KwStarting
    /\ lastOp'.line[2] \in TestKeys
\* The active tests whose known total is t, and those whose total is unknown.
Matching(t) == {k \in DOMAIN m_activeTests : m_activeTests[k] = t}
Unknown == {k \in DOMAIN m_activeTests : m_activeTests[k] = 0}
IsTestProgress(e) == e.sig = "testProgressUpdated"
IsProgress(e) == e.sig = "progressUpdated"
TestProgressOf(events) == SelectSeq(events, IsTestProgress)

\* C13: a progress line whose total is the known total of exactly one active
\* test is attributed to that test, and the tracker is left as it was.
C13_SingleMatch ==
    [][(IsProgressStep /\ Cardinality(Matching(Total)) = 1)
       => (/\ \E k \in Matching(Total) :
                 TestProgressOf(emitted') =
                     <<TestProgressUpdated(k, Percent, "Processing")>>
           /\ UNCHANGED <<m_activeTests, m_testKeyQueue,
                          m_currentTestKey>>)]_vars

\* A progress line was attributed by its total while another test with
\* another known total was active.
C13_Witness ==
    /\ lastOp.op = "readyRead" /\ lastOp.line[1] = KwProgress
    /\ DOMAIN m_activeTests = {"K1", "K2"}
    /\ m_activeTests["K1"] = 1 /\ m_activeTests["K2"] = 2
    /\ m_testKeyQueue = <<"K1", "K2">>
    /\ lastOp.line[2] = "2"
    /\ TestProgressOf(emitted) = <<TestProgressUpdated("K2", 50, "Processing")>>

\* No two active tests have the same known total: a total is given to a
\* test (line 408) only when findTestKeyByFrameCount found no test with it.
\* The branch of lines 658-671 is never taken.
KnownTotalsDistinct ==
    \A k1, k2 \in DOMAIN m_activeTests :
        (m_activeTests[k1] > 0 /\ m_activeTests[k1] = m_activeTests[k2])
            => k1 = k2

\* The oldest active test with an unknown total, by the time it became
\* active.
OldestRegisteredUnknown ==
    LET idx == {i \in 1..Len(startOrder) : startOrder[i] \in Unknown}
    IN  startOrder[CHOOSE i \in idx : \A j \in idx : i <= j]

\* C15: a progress line whose total no active test has, while some active
\* test has an unknown total, gives the total to the earliest registered of
\* the active tests with an unknown total and is attributed to it.
C15_OldestUnknownGetsTotal ==
    [][(IsProgressStep /\ Matching(Total) = {} /\ Unknown # {})
       => (/\ m_activeTests' =
                 PutKey(m_activeTests, OldestRegisteredUnknown, Total)
           /\ TestProgressOf(emitted') =
                 <<TestProgressUpdated(OldestRegisteredUnknown, Percent,
                                       "Processing")>>)]_vars

\* C16: a start line for a key that is already active leaves the key's
\* known total and its place in the start order as they were.
C16_RegistrationIdempotent ==
    [][(IsStartStep /\ lastOp'.line[2] \in DOMAIN m_activeTests)
       => (/\ m_activeTests' = m_activeTests
           /\ m_testKeyQueue' = m_testKeyQueue)]_vars

\* C17: no key occurs twice in the start-order queue.
C17_QueueHasNoDuplicates ==
    \A i, j \in 1..Len(m_testKeyQueue) :
        m_testKeyQueue[i] = m_testKeyQueue[j] => i = j

\* C18: a progress line with percentage p emits exactly one overall progress
\* event, with p; it emits one per-test event, with p, when some active
\* test has the line's total or an unknown total, and otherwise no per-test
\* event, leaving the tracker as it was.
C18_ProgressEvents ==
    [][IsProgressStep
       => (/\ SelectSeq(emitted', IsProgress) =
                 <<ProgressUpdated(Percent, "Processing")>>
           /\ (Matching(Total) \cup Unknown # {})
                 => (/\ Len(TestProgressOf(emitted')) = 1
                     /\ TestProgressOf(emitted')[1].percentage = Percent)
           /\ (Matching(Total) \cup Unknown = {})
                 => (/\ TestProgressOf(emitted') = <<>>
                     /\ UNCHANGED <<m_activeTests, m_testKeyQueue,
                                    m_currentTestKey>>))]_vars

\* A progress line was read with a test to attribute it to.
C18_Witness ==
    /\ lastOp.op = "readyRead" /\ lastOp.line[1] = KwProgress
    /\ lastOp.line[4] = "(50%)"
    /\ Len(TestProgressOf(emitted)) = 1
    /\ Len(SelectSeq(emitted, IsProgress)) = 1

\* A progress line was read with no test to attribute it to, while a test
\* with another known total was active.
C18_WitnessUnattributed ==
    /\ lastOp.op = "readyRead" /\ lastOp.line[1] = KwProgress
    /\ TestProgressOf(emitted) = <<>>
    /\ DOMAIN m_activeTests # {}

\* The runner after runAll started the tester, before any output.
Launched ==
    [mode |-> "All", step2 |-> FALSE, testerPath |-> "tester",
     iniPath |-> "ini", cur |-> "", act |-> EmptyMap, queue |-> <<>>,
     proc |-> m_process, prep |-> m_prepareUIProcess, out |-> <<>>,
     order |-> <<>>]

\* The output read so far, had each of its lines arrived whole, one line a
\* notification.
RECURSIVE LineByLine(_, _)
LineByLine(s, lines) ==
    IF lines = <<>> THEN s
    ELSE LineByLine(onReadyRead(s, Head(lines) \o <<NewLine>>), Tail(lines))
Whole == LineByLine(Launched, SplitLines(child.stream))

\* C19: however the output is cut into notifications, once all of it was
\* read the per-test and overall progress events emitted and the tracker are
\* those of the same lines arriving whole.
C19_ChunkingInvisible ==
    (m_process.state = "Running" /\ child.pos = Len(child.stream))
        => /\ child.seen = SelectSeq(Whole.out, IsClassified)
           /\ m_activeTests = Whole.act
           /\ m_testKeyQueue = Whole.queue
           /\ m_currentTestKey = Whole.cur

\* The tracker after the first i of the lines, each applied to the tracker
\* the one before it left.
RECURSIVE AfterLine(_, _, _)
AfterLine(s, pieces, i) ==
    IF i = 0 THEN s
    ELSE onOutputLine(AfterLine(s, pieces, i - 1), Classify(pieces[i]))

\* C20: the lines of one notification are applied in arrival order: the
\* progress events the call emits are those of line 1 on the tracker as it
\* was, then those of line 2 on the tracker line 1 left, and so on, and the
\* tracker is left as the last line leaves it.
C20_BatchInArrivalOrder ==
    [][lastOp'.op = "readyReadChunk"
       => LET pieces == SplitLines(lastOp'.data)
              last == AfterLine(State, pieces, Len(pieces))
          IN  /\ SelectSeq(emitted', IsClassified) = last.out
              /\ m_activeTests' = last.act
              /\ m_testKeyQueue' = last.queue
              /\ m_currentTestKey' = last.cur]_vars

\* One notification carried a start line and then a progress line, and the
\* progress went to the test the start line had just registered.
C20_Witness ==
    /\ lastOp.op = "readyReadChunk"
    /\ lastOp.data = Flatten(<<StartLine("K1"), ProgressLine("1", "(20%)")>>)
    /\ SelectSeq(emitted, IsClassified) =
          <<TestProgressUpdated("K1", 0, "Starting..."),
            TestProgressUpdated("K1", 20, "Processing"),
            ProgressUpdated(20, "Processing")>>
    /\ m_activeTests = [k \in {"K1"} |-> 1]

\* The path holds the results root followed by the four segments.
HasRootThenFour(path) ==
    \E i \in 1..Len(path) :
        /\ path[i] \in MarkerTokens
        /\ \E n \in 1..(Len(path) - i) :
              /\ \A k \in (i + 1)..(i + n) : path[k] \in Separators
              /\ Len(path) >= i + n + 7
              /\ Normalized(SubSeq(path, i + n + 1, i + n + 7)) \in
                    {<<"Cat", Slash, "Ev", Slash, "Set", Slash, "F0007">>,
                     <<"Cat", Slash, "EV", Slash, "SET", Slash, "F0007">>}

\* C21: the key derived from a folder path that holds the results root (in
\* any letter case, with either separator) followed by Cat/Ev/Set/F0007 and
\* more is exactly the four segments joined by forward slashes.
C21_KeyIsFourSegments ==
    (lastOp.op = "extractTestKeyFromPath" /\ HasRootThenFour(lastOp.path))
        => lastOp.key \in
               {<<"Cat", Slash, "Ev", Slash, "Set", Slash, "F0007">>,
                <<"Cat", Slash, "EV", Slash, "SET", Slash, "F0007">>}

\* ---------------------------------------------------------------------
\* Image cache
\* ---------------------------------------------------------------------

\* The step that stores a loaded image was the last step.
Stored == lastOp.op = "getImage_Insert"

\* C22: with caching enabled, once getImage has loaded an image and stored
\* it, the call has returned the image and getImageIfCached finds it: the key
\* is in the cache and the mutex the lookup takes is free.
C22_LoadedImageIsCached ==
    Stored =>
        LET t == lastOp.thread
        IN  /\ m_maxCacheSize >= 1
            /\ Idle(t) /\ calls[t].result = "image"
            /\ MutexFree
            /\ Lookup(Cache, calls[t].key).hit

\* The suffix of a list that holds its last n elements.
LastN(list, n) == SubSeq(list, Len(list) - n + 1, Len(list))

Range(list) == {list[i] : i \in 1..Len(list)}

\* C23: the step of getImage that stores an image keeps the most recently
\* used keys, the stored one among them, drops only the least recently used
\* ones, leaves at most m_maxCacheSize entries, and lets the call go on to
\* load the next image.
C23_EvictionIsLeastRecentlyUsed ==
    [][lastOp'.op = "getImage_Insert" =>
          LET t == lastOp'.thread
              used == Touch(m_cacheAccessOrder, calls[t].key)
          IN  /\ \E n \in 1..Len(used) :
                    /\ m_cacheAccessOrder' = LastN(used, n)
                    /\ m_cache' = Range(LastN(used, n))
              /\ Cardinality(m_cache') <= m_maxCacheSize
              /\ calls'[t].pc = "idle"]_vars

\* While the mutex is free the cache is empty: an image is stored only by
\* the step that then waits for the mutex it holds.
NonEmptyCacheIsLocked == MutexFree => m_cache = {} /\ m_cacheAccessOrder = <<>>

\* ---------------------------------------------------------------------
\* Overall progress lines and completions
\* ---------------------------------------------------------------------

\* The step reads an overall progress line; with the sub-clause the line has
\* eight tokens and Folder is its <<a, b>>.
IsOverallStep == lastOp'.op = "readyRead" /\ lastOp'.line[1] = KwOverall
HasFolder == Len(lastOp'.line) = 8
Folder == FolderCountsOf(lastOp'.line[7])
OverallPercent == PercentOf(lastOp'.line[4])

\* The step reads a total: that of a progress line or of the sub-clause.
IsObservation == IsProgressStep \/ (IsOverallStep /\ HasFolder)
ObservedTotal == IF IsProgressStep THEN Total ELSE Folder[2]

\* C25: reading one total (of a progress line, or of the sub-clause of an
\* overall progress line) changes the known total of at most one active
\* test, only of a test whose total was unknown, only when no active test
\* has that total, and leaves the set of active tests, the start-order
\* queue, the order of registration and the current key as they were.
C25_AtMostOneTotalSet ==
    [][IsObservation
       => (/\ DOMAIN m_activeTests' = DOMAIN m_activeTests
           /\ UNCHANGED <<m_testKeyQueue, startOrder, m_currentTestKey>>
           /\ LET changed == {k \in DOMAIN m_activeTests :
                                  m_activeTests'[k] # m_activeTests[k]}
              IN  /\ Cardinality(changed) <= 1
                  /\ \A k \in changed :
                        /\ m_activeTests[k] = 0
                        /\ Matching(ObservedTotal) = {}
                        /\ m_activeTests'[k] = ObservedTotal)]_vars

\* The sub-clause of an overall progress line gave its total to one of two
\* tests with unknown totals; the other one's total is still unknown.
C25_Witness ==
    /\ lastOp.op = "readyRead"
    /\ lastOp.line = OverallFolderLine("1", "(20%)", FolderToken(1, 2))
    /\ m_testKeyQueue = <<"K1", "K2">>
    /\ m_activeTests = [k \in {"K1", "K2"} |-> IF k = "K1" THEN 2 ELSE 0]
    /\ TestProgressOf(emitted) = <<TestProgressUpdated("K1", 50, "Processing")>>

\* q is floor(100 * a / b), and 0 when b = 0.
IsFloor100(q, a, b) ==
    IF b = 0 THEN q = 0 ELSE q * b <= 100 * a /\ 100 * a < (q + 1) * b

\* C26: an overall progress line with aggregate percentage p emits exactly
\* one overall event, with p.  With the sub-clause "Current folder: a/b
\* frames" the total b is resolved as a progress line's total is (same key,
\* same tracker afterwards), and a per-test event, with floor(100 a / b), is
\* emitted for the key exactly when one is resolved, that is when some
\* active test has the total b or an unknown total.  Without the sub-clause
\* no per-test event is emitted and the tracker is left as it was.
C26_OverallProgressEvents ==
    [][IsOverallStep
       => (/\ SelectSeq(emitted', IsProgress) =
                 <<ProgressUpdated(OverallPercent, "Processing")>>
           /\ HasFolder
                 => LET unit == onProgressLine(State, Folder[2], 0)
                        events == TestProgressOf(emitted')
                    IN  /\ m_activeTests' = unit.act
                        /\ UNCHANGED <<m_testKeyQueue, m_currentTestKey>>
                        /\ Len(events) = 1
                              <=> Matching(Folder[2]) \cup Unknown # {}
                        /\ Len(events) <= 1
                        /\ \A i \in 1..Len(events) :
                              /\ events[i].testKey =
                                     TestProgressOf(unit.out)[1].testKey
                              /\ IsFloor100(events[i].percentage,
                                            Folder[1], Folder[2])
           /\ ~HasFolder
                 => (/\ TestProgressOf(emitted') = <<>>
                     /\ UNCHANGED <<m_activeTests, m_testKeyQueue,
                                    m_currentTestKey>>))]_vars

\* An overall progress line at 20% carried "Current folder: 2/3 frames": the
\* test got 66%, the run 20%.
C26_Witness ==
    /\ lastOp.op = "readyRead"
    /\ lastOp.line = OverallFolderLine("1", "(20%)", FolderToken(2, 3))
    /\ SelectSeq(emitted, IsClassified) =
          <<TestProgressUpdated("K2", 66, "Processing"),
            ProgressUpdated(20, "Processing")>>
    /\ m_activeTests["K2"] = 3

\* An overall progress line without the sub-clause was read while a test
\* with an unknown total was active.
C26_WitnessNoFolder ==
    /\ lastOp.op = "readyRead"
    /\ lastOp.line[1] = KwOverall /\ Len(lastOp.line) = 4
    /\ SelectSeq(emitted, IsClassified) = <<ProgressUpdated(50, "Processing")>>
    /\ \E k \in DOMAIN m_activeTests : m_activeTests[k] = 0

\* The step reads a start line, whatever its path.
IsStartLineStep == lastOp'.op = "readyRead" /\ lastOp'.line[1] = KwStarting

\* C27: a start line from whose path a key is derived makes the key active
\* and current and emits exactly one per-test event, (key, 0,
\* "Starting..."), and no overall event; a start line from whose path no key
\* is derived emits no per-test and no overall event and leaves the tracker
\* and the current key as they were.
C27_StartLine ==
    [][IsStartLineStep
       => LET key == lastOp'.line[2]
          IN  /\ key \in TestKeys
                 => (/\ key \in DOMAIN m_activeTests'
                     /\ m_currentTestKey' = key
                     /\ SelectSeq(emitted', IsClassified) =
                           <<TestProgressUpdated(key, 0, "Starting...")>>
                     /\ \A k \in DOMAIN m_activeTests \ {key} :
                           /\ k \in DOMAIN m_activeTests'
                           /\ m_activeTests'[k] = m_activeTests[k])
              /\ key \notin TestKeys
                 => (/\ SelectSeq(emitted', IsClassified) = <<>>
                     /\ UNCHANGED <<m_activeTests, m_testKeyQueue,
                                    m_currentTestKey>>)]_vars

\* K2 was started while K1, with a known total, was active: K2 is current.
C27_Witness ==
    /\ lastOp.op = "readyRead" /\ lastOp.line = StartLine("K2")
    /\ m_currentTestKey = "K2"
    /\ m_activeTests = [k \in {"K1", "K2"} |-> IF k = "K1" THEN 2 ELSE 0]
    /\ SelectSeq(emitted, IsClassified) =
          <<TestProgressUpdated("K2", 0, "Starting...")>>

\* A start line without a derivable key was read while K1 was current.
C27_WitnessNoKey ==
    /\ lastOp.op = "readyRead" /\ lastOp.line = StartLine("?")
    /\ m_currentTestKey = "K1"
    /\ DOMAIN m_activeTests = {"K1"}
    /\ SelectSeq(emitted, IsClassified) = <<>>

\* The step reads a completion line from whose path a key is derived.
IsCompletionStep ==
    /\ lastOp'.op = "readyRead" /\ lastOp'.line[1] = KwCompleted
    /\ lastOp'.line[2] \in TestKeys

Without(list, key) == SelectSeq(list, LAMBDA k : k # key)

\* C28: a completion line from whose path the key K is derived emits one
\* per-test event, (K, 100, "Completed"); K is not active afterwards; the
\* current key is cleared exactly if it was K; every other active test keeps
\* its total and its place relative to the others in the start order; and a
\* progress line is only ever attributed to a test that is active, so not to
\* K unless K was started again.
C28_ExplicitCompletion ==
    [][/\ IsCompletionStep
          => LET K == lastOp'.line[2]
             IN  /\ SelectSeq(emitted', IsClassified) =
                       <<TestProgressUpdated(K, 100, "Completed")>>
                 /\ DOMAIN m_activeTests' = DOMAIN m_activeTests \ {K}
                 /\ \A k \in DOMAIN m_activeTests' :
                       m_activeTests'[k] = m_activeTests[k]
                 /\ m_currentTestKey' =
                       IF m_currentTestKey = K THEN "" ELSE m_currentTestKey
                 /\ Without(m_testKeyQueue', K) = Without(m_testKeyQueue, K)
                 /\ startOrder' = Without(startOrder, K)
       /\ IsProgressStep
          => \A i \in 1..Len(TestProgressOf(emitted')) :
                TestProgressOf(emitted')[i].testKey \in DOMAIN m_activeTests
      ]_vars

\* K1 was completed by name while K2, started after it and with a known
\* total, was current: K2 is still current and keeps its total.
C28_Witness ==
    /\ lastOp.op = "readyRead" /\ lastOp.line = CompletedLine("K1")
    /\ m_currentTestKey = "K2"
    /\ m_activeTests = [k \in {"K2"} |-> 2]
    /\ m_testKeyQueue = <<"K2">>
    /\ SelectSeq(emitted, IsClassified) =
          <<TestProgressUpdated("K1", 100, "Completed")>>

\* The step reads the implicit completion marker.
IsImplicitStep == lastOp'.op = "readyRead" /\ lastOp'.line = ImplicitLine

\* C29: the implicit completion marker, when the current key is set, emits
\* one per-test event, (current, 100, "Completed"), removes the current key
\* from the active tests and leaves the current key set; when the current
\* key is unset it emits no per-test event and leaves the tracker as it was.
C29_ImplicitCompletion ==
    [][IsImplicitStep
       => (/\ m_currentTestKey # ""
              => (/\ TestProgressOf(emitted') =
                        <<TestProgressUpdated(m_currentTestKey, 100,
                                              "Completed")>>
                  /\ DOMAIN m_activeTests' =
                        DOMAIN m_activeTests \ {m_currentTestKey}
                  /\ \A k \in DOMAIN m_activeTests' :
                        m_activeTests'[k] = m_activeTests[k]
                  /\ m_currentTestKey' = m_currentTestKey)
           /\ m_currentTestKey = ""
              => (/\ TestProgressOf(emitted') = <<>>
                  /\ UNCHANGED <<m_activeTests, m_testKeyQueue,
                                 m_currentTestKey>>))]_vars

\* The marker completed the current test K2 while K1 was active: K2 is not
\* active any more and is still the current key.
C29_Witness ==
    /\ lastOp.op = "readyRead" /\ lastOp.line = ImplicitLine
    /\ m_currentTestKey = "K2"
    /\ DOMAIN m_activeTests = {"K1"}
    /\ TestProgressOf(emitted) = <<TestProgressUpdated("K2", 100, "Completed")>>

\* The marker was read with no current key while K1 was active.
C29_WitnessUnset ==
    /\ lastOp.op = "readyRead" /\ lastOp.line = ImplicitLine
    /\ m_currentTestKey = ""
    /\ DOMAIN m_activeTests = {"K1"}
    /\ TestProgressOf(emitted) = <<>>

\* The step reads a completion that names no test: the implicit marker, or a
\* completion line from whose path no key is derived.
IsKeylessCompletionStep ==
    \/ IsImplicitStep
    \/ /\ lastOp'.op = "readyRead" /\ lastOp'.line[1] = KwCompleted
       /\ lastOp'.line[2] \notin TestKeys

\* C30: a completion that names no test completes and removes the active
\* test that became active last, whatever starts and completions came
\* before; with no active test it completes none.
C30_CompletesLatestActive ==
    [][IsKeylessCompletionStep
       => IF startOrder = <<>>
          THEN m_activeTests' = m_activeTests
          ELSE LET latest == startOrder[Len(startOrder)]
               IN  /\ TestProgressOf(emitted') =
                         <<TestProgressUpdated(latest, 100, "Completed")>>
                   /\ DOMAIN m_activeTests' = DOMAIN m_activeTests \ {latest}
      ]_vars

\* The step is an exit of the primary process: finished() from the event
\* loop, or from the wait inside stop().
IsPrimaryExitStep ==
    \/ lastOp'.op = "processFinished"
    \/ lastOp'.op = "stop" /\ lastOp'.kill1 = "finished"

\* C31: every exit of the primary process leaves the tracker empty (active
\* table, start-order queue, current pointer), emits no per-test event, so no
\* "Completed" for the tests active at the exit, and emits exactly one
\* overall-progress event, (100, "Processing completed"); a phase two started
\* by the exit starts with the tracker empty.
C31_ExitResetsTracker ==
    [][IsPrimaryExitStep
       => /\ m_activeTests' = EmptyMap
          /\ m_testKeyQueue' = <<>>
          /\ m_currentTestKey' = ""
          /\ TestProgressOf(emitted') = <<>>
          /\ SelectSeq(emitted', IsProgress)
               = <<ProgressUpdated(100, "Processing completed")>>
      ]_vars

\* Phase one has exited and phase two has started with the tracker empty; the
\* exit emitted the one overall-progress event and nothing else.
C31_Witness ==
    /\ lastOp.op = "processFinished"
    /\ m_mode = "CompareThenPrepare"
    /\ m_step2Queued
    /\ m_process = [state |-> "Running", args |-> "prepare-ui"]
    /\ m_activeTests = EmptyMap
    /\ m_testKeyQueue = <<>>
    /\ m_currentTestKey = ""
    /\ emitted = <<ProgressUpdated(100, "Processing completed")>>

\* The step starts "prepare-ui" on the primary process.
IsPhaseTwoStart ==
    /\ m_process'.args = "prepare-ui"
    /\ Alive(m_process')
    /\ IsPrimaryExitStep \/ ~Alive(m_process)

\* An outcome of the primary run: not the independent phase's, and not the
\* rejection of a request.
IsPrimaryOutcome(e) ==
    IsRunFinished(e) /\ e.mode # "prepare-ui" /\ ~IsRejection(e)

\* C32: "prepare-ui" is started on the primary process only by the exit of
\* the "compare" process of a chained run whose step-two flag is still false
\* (so at most once per run, after phase one), and the step-two flag is false
\* after every call that emits an outcome of the primary run.
C32_PhaseTwoOnce ==
    [][/\ IsPhaseTwoStart
          => /\ IsPrimaryExitStep
             /\ m_mode = "CompareThenPrepare"
             /\ ~m_step2Queued
             /\ m_process.args = "compare"
       /\ (\E i \in 1..Len(emitted') : IsPrimaryOutcome(emitted'[i]))
          => ~m_step2Queued'
      ]_vars

\* C33: in a chained run the exit of phase one, whatever its exit code and
\* exit status, emits no outcome of its own, sets the step-two flag and
\* launches "prepare-ui" (which runs, unless the launch itself failed); the
\* outcome that the exit of phase two emits has the success flag and the exit
\* code of that exit alone.
C33_PhaseTwoWhateverPhaseOne ==
    [][/\ (lastOp'.op = "processFinished" /\ Chains)
          => /\ m_step2Queued'
             /\ m_mode' = "CompareThenPrepare"
             /\ m_process'.args = "prepare-ui"
             /\ Count(emitted', IsExitOutcome) = 0
             /\ m_process'.state = "Running"
                \/ Count(emitted', IsLaunchFailure) = 1
       /\ (/\ lastOp'.op = "processFinished"
           /\ m_mode = "CompareThenPrepare" /\ m_step2Queued)
          => LET outcomes == SelectSeq(emitted', IsRunFinished)
             IN  /\ Len(outcomes) = 1
                 /\ outcomes[1].success = (lastOp'.exit = CleanExit)
                 /\ outcomes[1].exitCode = lastOp'.exit.code
      ]_vars

\* Phase one has crashed with a non-zero code and phase two is running.
C33_Witness ==
    /\ lastOp.op = "processFinished"
    /\ lastOp.exit = [code |-> 1, status |-> "CrashExit"]
    /\ m_mode = "CompareThenPrepare"
    /\ m_step2Queued
    /\ m_process = [state |-> "Running", args |-> "prepare-ui"]
    /\ Count(emitted, IsRunFinished) = 0

\* C34: a run request accepted while the primary process is running starts
\* no second process and leaves alone the process, the mode and step-two
\* flag under which its exit will be handled, and the table, queue and
\* current test built from its output.
C34_RequestKeepsRunInFlight ==
    [][(Accepted(lastOp') /\ m_process.state = "Running")
       => /\ m_process' = m_process
          /\ m_mode' = m_mode
          /\ m_step2Queued' = m_step2Queued
          /\ m_activeTests' = m_activeTests
          /\ m_testKeyQueue' = m_testKeyQueue
          /\ m_currentTestKey' = m_currentTestKey
      ]_vars

\* C35: no outcome of the primary run carries the label "unknown", and an
\* outcome emitted by the call that announced the run with run-started(L)
\* carries that label L.
C35_OutcomeCarriesRunLabel ==
    /\ \A i \in 1..Len(emitted) :
           IsPrimaryOutcome(emitted[i]) => emitted[i].mode # "unknown"
    /\ \A i, j \in 1..Len(emitted) :
           (/\ i < j
            /\ emitted[i].sig = "runStarted"
            /\ IsPrimaryOutcome(emitted[j]))
           => emitted[j].mode = emitted[i].mode

\* C37: whenever the mode is None the tracker is empty: no active test, an
\* empty start-order queue and no current test.
C37_IdleTrackerEmpty ==
    m_mode = "None"
    => /\ m_activeTests = EmptyMap
       /\ m_testKeyQueue = <<>>
       /\ m_currentTestKey = ""

\* C36: no call on the image cache blocks for ever: no thread waits for the
\* cache mutex while that thread itself holds it, and the mutex is never held
\* by a thread that will not release it.
C36_NoCallBlocksForever ==
    /\ \A t \in Threads : calls[t].pc # "deadlock"
    /\ ~MutexFree => calls[m_cacheMutex].pc \notin {"idle", "deadlock"}

\* C39: every active test is in the start-order queue, so for every total
\* that some active test has, the scan of the queue from the back finds an
\* active test with that total and the "first match" fallback of
\* findTestKeyByFrameCount is not reached.
C39_ActiveKeysAreQueued ==
    /\ DOMAIN m_activeTests \subseteq Range(m_testKeyQueue)
    /\ \A total \in 1..MaxTotal :
           LET matchingKeys == {k \in DOMAIN m_activeTests :
                                   m_activeTests[k] = total}
           IN  matchingKeys # {}
               => \E i \in 1..Len(m_testKeyQueue) :
                      m_testKeyQueue[i] \in matchingKeys

\* Two tests are active and queued, and a progress line was attributed by
\* its total to the one that holds it.
C39_Witness ==
    /\ lastOp.op = "readyRead" /\ lastOp.line[1] = KwProgress
    /\ lastOp.line[2] = "1"
    /\ m_testKeyQueue = <<"K2", "K1">>
    /\ DOMAIN m_activeTests = {"K1", "K2"}
    /\ m_activeTests["K2"] = 1 /\ m_activeTests["K1"] = 2
    /\ Len(TestProgressOf(emitted)) = 1
    /\ TestProgressOf(emitted)[1].testKey = "K2"

====
